---- MODULE Spec2Model ----
(***************************************************************************)
(* A model of AgentHub's trust subsystem (src/src/agenthub/signing.py):    *)
(* canonical content, Ed25519 signing and verification of manifests,       *)
(* attestations, and the trusted-verifier registry file; of its agent      *)
(* identifiers and lineages (identity.py, cli.py) and of its record store  *)
(* (database.py, server/app.py).                                           *)
(*                                                                         *)
(* Python values are tagged records [t, v].  Text is a TLA+ string; the    *)
(* conversions (json.dumps, base64, str) build the text they build in the  *)
(* code, so two values that serialise to the same text are seen to.        *)
(***************************************************************************)
EXTENDS Integers, Sequences, FiniteSets, TLC

VARIABLES
    CRYPTOGRAPHY_AVAILABLE, \* signing.py:36/38, fixed when the module is imported
    private_pem,            \* ~/.agenthub/keys/private.pem: "" (absent) or a private key
    private_mode,           \* the permission bits of private.pem, "" while it is absent
    public_pem,             \* ~/.agenthub/keys/public.pem: "" (absent) or a public key
    manifest_file,          \* the parsed content of the manifest YAML file
    verifiers_file,         \* ~/.agenthub/trusted-verifiers.yaml
    pc,                     \* per process: position inside add/remove_trusted_verifier
    verifiers,              \* per process: the local `verifiers` dict
    call,                   \* per process: the registry call in progress
    applied,                \* history: the registry that the add/remove calls which
                            \* returned give, applied in the order they returned
    now,                    \* the clock read by datetime.now(timezone.utc)
    args,                   \* the arguments of the last call
    ret,                    \* the last call and its outcome
    edits,                  \* edits made to the manifest file from outside
    last_signed,            \* history: the file as the last sign left it
    resigned,               \* history: the last sign found the file so
    lists,                  \* the Python list objects alive, by reference
    AGENTHUB_API_URL,       \* the environment variable: "" (unset) or the server's URL
    agents,                 \* table agents: its rows in rowid order, and the
                            \* largest rowid it has ever held (sqlite_sequence)
    version_history         \* the rows of table version_history, in id order

vars == <<CRYPTOGRAPHY_AVAILABLE, private_pem, private_mode, public_pem,
          manifest_file, verifiers_file,
          pc, verifiers, call, applied, now, args, ret, edits, last_signed,
          resigned, lists, AGENTHUB_API_URL, agents, version_history>>

\* the files of ~/.agenthub/keys
keystore_vars == <<private_pem, private_mode, public_pem>>

\* the record store and the list objects
store_vars == <<lists, AGENTHUB_API_URL, agents, version_history>>

\* the record store alone
db_vars == <<AGENTHUB_API_URL, agents, version_history>>

-----------------------------------------------------------------------------
(* Bounds of the model *)

\* the clock stops advancing here (signed_at / added_at / timestamp values)
MaxClock == 1
\* edits of the manifest file made from outside the signing module
MaxEdits == 2
\* attestations appended to one manifest
MaxAttestations == 2
\* list objects alive at one time
MaxLists == 3
\* entries of one list object
MaxLen == 3
\* rowids handed out by table agents
MaxRowId == 2
\* rows of table version_history
MaxHistory == 2

-----------------------------------------------------------------------------
(* Python values, as yaml.safe_load and the callers produce them *)

PyStr(s) == [t |-> "str", v |-> s]
PyInt(s) == [t |-> "int", v |-> s]
PyDate(s) == [t |-> "date", v |-> s]
PyNone == [t |-> "none", v |-> "None"]
PyList(items) == [t |-> "list", v |-> items]
PyDict(items) == [t |-> "dict", v |-> items]

\* bool(x) as `if not x` evaluates it
Truthy(x) ==
    ~(x = PyNone \/ x = PyStr("") \/ x = PyInt("0")
        \/ x = PyList(<<>>) \/ x = PyDict(<<>>))

\* the outcome of a call: a returned value or a raised exception
Return(val) == [exc |-> "", val |-> val]
Raise(e) == [exc |-> e, val |-> <<>>]
Returned(out) == out.exc = ""
\* what `ret` holds: the operation called and its outcome
Called(op, out) == [op |-> op, out |-> out]
NoCall == Called("-", Raise("-"))

\* key in d
DictHas(d, k) == \E i \in 1..Len(d.v) : d.v[i][1] = k

\* d.get(k, default)
DictGet(d, k, default) ==
    IF DictHas(d, k)
    THEN d.v[CHOOSE i \in 1..Len(d.v) : d.v[i][1] = k][2]
    ELSE default

\* a mutant: the item is added whether or not the key is there
DictSet_append(d, k, val) == PyDict(Append(d.v, <<k, val>>))

\* d[k] = val: an existing key keeps its position, a new key goes last
DictSet(d, k, val) ==
    IF DictHas(d, k)
    THEN PyDict([i \in 1..Len(d.v) |->
                    IF d.v[i][1] = k THEN <<k, val>> ELSE d.v[i]])
    ELSE PyDict(Append(d.v, <<k, val>>))

\* a mutant: nothing is left out
DictWithout_nothing(d, exclude) == d

\* {key: v for key, v in d.items() if key not in exclude}; also del d[k]
DictWithout(d, exclude) ==
    PyDict(SelectSeq(d.v, LAMBDA kv : kv[1] \notin exclude))

\* the keys of d, as a set
DictKeys(d) == {d.v[i][1] : i \in 1..Len(d.v)}

-----------------------------------------------------------------------------
(* json.dumps(obj, sort_keys=True, default=str) *)

\* the text json.dumps cannot produce: it raised TypeError
JsonError == "<TypeError>"

\* a str as the encoder writes it.  The escaping of quotes and backslashes
\* is left out: it is one to one, and the only texts of the model that hold
\* a quote are signatures
Quote(s) == "\"" \o s \o "\""

\* Python's order of the texts used as keys (str by code point; the int keys
\* of the model are single digits, whose numeric order is the same)
StrOrder == <<"1", "5", "attestations", "description", "meta", "metadata",
              "name", "public_key", "released", "signature", "signed_at",
              "statement", "timestamp", "type", "verifier", "verifier_id",
              "version">>

\* the place of each text in that order
StrRanks ==
    [s \in {StrOrder[i] : i \in 1..Len(StrOrder)} |->
        CHOOSE i \in 1..Len(StrOrder) : StrOrder[i] = s]

StrRank(s) == StrRanks[s]

\* sorted(dct.items()) compares the keys: str with int raises TypeError
KeysComparable(items) ==
    \A i \in 1..Len(items) : items[i][1].t = items[1][1].t

\* the items before and after kv in the order of the keys
ItemsBelow(items, kv) ==
    SelectSeq(items, LAMBDA x : StrRank(x[1].v) < StrRank(kv[1].v))
ItemsNotBelow(items, kv) ==
    SelectSeq(items, LAMBDA x : StrRank(x[1].v) >= StrRank(kv[1].v))

\* kv put at its place among items that are sorted
InsertItem(sorted, kv) ==
    ItemsBelow(sorted, kv) \o <<kv>> \o ItemsNotBelow(sorted, kv)

\* a mutant: the items are left in the order of insertion
SortItems_unsorted(items) == items

RECURSIVE SortItems(_)
\* sorted(dct.items()), the keys being comparable (and distinct)
SortItems(items) ==
    IF Len(items) <= 1 THEN items
    ELSE InsertItem(SortItems(Tail(items)), Head(items))

\* a key the encoder accepts: str, int (written as its digits) and None;
\* any other raises TypeError (default= is not applied to keys)
JsonKeyOk(k) == k.t \in {"str", "int", "none"}

\* a key as the encoder writes it
JsonKey(k) == IF k.t = "none" THEN Quote("null") ELSE Quote(k.v)

RECURSIVE JsonOk(_)
\* json.dumps(x, sort_keys=True, default=str) raises no TypeError
JsonOk(x) ==
    CASE x.t = "list" -> \A i \in 1..Len(x.v) : JsonOk(x.v[i])
      [] x.t = "dict" ->
            /\ KeysComparable(x.v)
            /\ \A i \in 1..Len(x.v) : JsonKeyOk(x.v[i][1]) /\ JsonOk(x.v[i][2])
      [] OTHER -> TRUE

RECURSIVE JsonText(_)
RECURSIVE JsonList(_)
RECURSIVE JsonItems(_)

JsonList(items) ==
    IF items = <<>> THEN ""
    ELSE IF Len(items) = 1 THEN JsonText(Head(items))
    ELSE JsonText(Head(items)) \o ", " \o JsonList(Tail(items))

JsonItems(items) ==
    IF items = <<>> THEN ""
    ELSE IF Len(items) = 1
         THEN JsonKey(Head(items)[1]) \o ": " \o JsonText(Head(items)[2])
    ELSE JsonKey(Head(items)[1]) \o ": " \o JsonText(Head(items)[2])
            \o ", " \o JsonItems(Tail(items))

\* the text the encoder writes for a value it accepts
JsonText(x) ==
    CASE x.t = "str" -> Quote(x.v)
      [] x.t = "int" -> x.v
      [] x.t = "none" -> "null"
      [] x.t = "list" -> "[" \o JsonList(x.v) \o "]"
      [] x.t = "dict" -> "{" \o JsonItems(SortItems(x.v)) \o "}"
      \* not JSON serialisable: default=str puts str(obj) in its place
      [] OTHER -> Quote(x.v)

JsonDumps(x) == IF JsonOk(x) THEN JsonText(x) ELSE JsonError

\* the outcome of the call of json.dumps that gave this text
Dumped(text) == IF text = JsonError THEN Raise("TypeError") ELSE Return(text)

-----------------------------------------------------------------------------
(* Ed25519 and base64 *)

\* the private keys generate_keypair can produce
Keys == {"k1", "k2"}

\* the 32 raw bytes of the public key of private key k
PublicBytes(k) == "pub(" \o k \o ")"

\* private_key.sign(content): 64 bytes, deterministic
Ed25519Sign(k, content) == "sig(" \o k \o "," \o content \o ")"

\* bytes that are neither a 32-byte key nor a 64-byte signature
ShortBytes == "short"

b64encode(bytes) == "b64:" \o bytes

\* base64.b64decode(text) = bytes: the decoder is not strict, it discards
\* characters outside the alphabet before decoding
B64DecodesTo(text, bytes) ==
    text \in {b64encode(bytes), b64encode(bytes) \o " "}

sign_content(content, private_key) == b64encode(Ed25519Sign(private_key, content))

get_public_key_base64(private_key) == b64encode(PublicBytes(private_key))

\* the body of the try block: any exception (TypeError for a non-str input,
\* binascii.Error, ValueError for a key of the wrong length, InvalidSignature)
\* is caught and gives False
verify_signature_try(content, signature_b64, public_key_b64) ==
    /\ signature_b64.t = "str"
    /\ public_key_b64.t = "str"
    /\ \E k \in Keys :
        /\ B64DecodesTo(public_key_b64.v, PublicBytes(k))
        /\ B64DecodesTo(signature_b64.v, Ed25519Sign(k, content))

\* a mutant: an input that fails to decode is taken as verified
verify_signature_failopen(content, signature_b64, public_key_b64) ==
    IF ~CRYPTOGRAPHY_AVAILABLE THEN Raise("ImportError")
    ELSE Return(\/ verify_signature_try(content, signature_b64, public_key_b64)
                \/ signature_b64.t # "str")

verify_signature(content, signature_b64, public_key_b64) ==
    IF ~CRYPTOGRAPHY_AVAILABLE THEN Raise("ImportError")
    ELSE Return(verify_signature_try(content, signature_b64, public_key_b64))

-----------------------------------------------------------------------------
(* Manifests *)

K_signature == PyStr("signature")
K_public_key == PyStr("public_key")
K_signed_at == PyStr("signed_at")
K_attestations == PyStr("attestations")

\* datetime.now(timezone.utc).isoformat() at clock value n
IsoFormat(n) == "T" \o ToString(n)

\* a mutant: signed_at is left in the signed content
get_signable_content_keeps_signed_at(manifest_data) ==
    IF manifest_data.t # "dict" THEN Raise("AttributeError")
    ELSE LET signable == DictWithout(manifest_data, {K_signature, K_public_key})
         IN Dumped(JsonDumps(signable))

get_signable_content(manifest_data) ==
    IF manifest_data.t # "dict" THEN Raise("AttributeError")
    ELSE LET exclude_fields == {K_signature, K_public_key, K_signed_at}
             signable == DictWithout(manifest_data, exclude_fields)
         IN Dumped(JsonDumps(signable))

\* `if verify_signature(...): return True, None / else: return False, invalid`
IfVerified(verified, invalid) ==
    IF ~Returned(verified) THEN verified
    ELSE IF verified.val THEN Return(<<TRUE, "None">>)
    ELSE Return(<<FALSE, invalid>>)

\* the end of the verify functions, from the signable content on
VerifyContent(signable_content, signature, public_key, invalid) ==
    IF ~Returned(signable_content) THEN signable_content
    ELSE IfVerified(verify_signature(signable_content.val, signature, public_key),
                    invalid)

\* a mutant: the signature is verified before the two fields are looked at
verify_manifest_eager(manifest_data, not_signed, no_key, invalid) ==
    IF manifest_data.t # "dict" THEN Raise("AttributeError")
    ELSE LET signature == DictGet(manifest_data, K_signature, PyNone)
             public_key == DictGet(manifest_data, K_public_key, PyNone)
         IN IF ~Returned(verify_signature("", signature, public_key))
            THEN verify_signature("", signature, public_key)
            ELSE IF ~Truthy(signature) THEN Return(<<FALSE, not_signed>>)
            ELSE IF ~Truthy(public_key) THEN Return(<<FALSE, no_key>>)
            ELSE VerifyContent(get_signable_content(manifest_data), signature,
                               public_key, invalid)

\* the common body of verify_manifest_file and verify_manifest_data, which
\* differ in the wording of the reasons only
verify_manifest(manifest_data, not_signed, no_key, invalid) ==
    IF manifest_data.t # "dict" THEN Raise("AttributeError")
    ELSE LET signature == DictGet(manifest_data, K_signature, PyNone)
             public_key == DictGet(manifest_data, K_public_key, PyNone)
         IN IF ~Truthy(signature) THEN Return(<<FALSE, not_signed>>)
            ELSE IF ~Truthy(public_key) THEN Return(<<FALSE, no_key>>)
            ELSE VerifyContent(get_signable_content(manifest_data), signature,
                               public_key, invalid)

\* what `file` is when there is no file at manifest_path
NoManifest == [t |-> "absent", v |-> ""]

\* the exception open(manifest_path, "r") raises when there is no such file
OpenError == "FileNotFoundError"

verify_manifest_file(file) ==
    IF file = NoManifest THEN Raise(OpenError)
    ELSE verify_manifest(file, "Manifest is not signed (no signature field)",
                         "Manifest is missing public_key field",
                         "Signature verification failed - manifest may have been tampered with")

verify_manifest_data(manifest_data) ==
    verify_manifest(manifest_data, "Manifest is not signed",
                    "Missing public key", "Invalid signature")

\* load_private_key()
load_private_key ==
    IF ~CRYPTOGRAPHY_AVAILABLE THEN Raise("ImportError")
    ELSE IF private_pem = "" THEN Raise("FileNotFoundError")
    ELSE Return(private_pem)

\* the manifest sign_manifest_file writes: the three trust fields are set
SignedManifest(file, signable_content, private_key, t) ==
    IF ~Returned(signable_content) THEN signable_content
    ELSE LET signature == sign_content(signable_content.val, private_key)
             m1 == DictSet(file, K_signature, PyStr(signature))
             m2 == DictSet(m1, K_public_key,
                           PyStr(get_public_key_base64(private_key)))
         IN Return(DictSet(m2, K_signed_at, PyStr(IsoFormat(t))))

\* sign_manifest_file at clock value t: the outcome, whose value is the
\* manifest_data written back to the file and returned
sign_manifest_file(file, t) ==
    IF ~CRYPTOGRAPHY_AVAILABLE THEN Raise("ImportError")
    ELSE IF file = NoManifest THEN Raise(OpenError)
    ELSE IF ~Returned(load_private_key) THEN load_private_key
    ELSE SignedManifest(file, get_signable_content(file), load_private_key.val, t)

-----------------------------------------------------------------------------
(* Attestations *)

K_type == PyStr("type")
K_verifier == PyStr("verifier")
K_statement == PyStr("statement")
K_timestamp == PyStr("timestamp")
K_verifier_id == PyStr("verifier_id")
K_metadata == PyStr("metadata")

get_attestation_signable_content(attestation_data) ==
    IF attestation_data.t # "dict" THEN Raise("AttributeError")
    ELSE LET exclude_fields == {K_signature, K_public_key}
             signable == DictWithout(attestation_data, exclude_fields)
         IN Dumped(JsonDumps(signable))

\* the attestation with its signature and the public key of private key k
WithSignature(attestation, signable_content, k) ==
    IF ~Returned(signable_content) THEN signable_content
    ELSE Return(DictSet(DictSet(attestation, K_signature,
                                PyStr(sign_content(signable_content.val, k))),
                        K_public_key, PyStr(get_public_key_base64(k))))

\* the attestation sign_attestation builds and signs with private key k
SignedAttestation(k, attestation_type, verifier, statement, verifier_id, metadata, t) ==
    LET a0 == PyDict(<< <<K_type, attestation_type>>, <<K_verifier, verifier>>,
                        <<K_statement, statement>>,
                        <<K_timestamp, PyStr(IsoFormat(t))>> >>)
        a1 == IF Truthy(verifier_id) THEN DictSet(a0, K_verifier_id, verifier_id) ELSE a0
        a2 == IF Truthy(metadata) THEN DictSet(a1, K_metadata, metadata) ELSE a1
    IN WithSignature(a2, get_attestation_signable_content(a2), k)

sign_attestation(attestation_type, verifier, statement, verifier_id, metadata, t) ==
    IF ~CRYPTOGRAPHY_AVAILABLE THEN Raise("ImportError")
    ELSE IF ~Returned(load_private_key) THEN load_private_key
    ELSE SignedAttestation(load_private_key.val, attestation_type, verifier,
                           statement, verifier_id, metadata, t)

verify_attestation(attestation_data) ==
    IF attestation_data.t # "dict" THEN Raise("AttributeError")
    ELSE LET signature == DictGet(attestation_data, K_signature, PyNone)
             public_key == DictGet(attestation_data, K_public_key, PyNone)
         IN IF ~Truthy(signature) THEN Return(<<FALSE, "Attestation is not signed">>)
            ELSE IF ~Truthy(public_key)
                 THEN Return(<<FALSE, "Attestation missing public_key">>)
            ELSE VerifyContent(get_attestation_signable_content(attestation_data),
                               signature, public_key, "Attestation signature invalid")

\* a mutant: the list is initialised whether or not the manifest has one
add_attestation_to_manifest_reinit(file, attestation) ==
    IF file.t # "dict" THEN Raise("TypeError")
    ELSE Return(DictSet(file, K_attestations, PyList(<<attestation>>)))

\* `"attestations" not in manifest_data`, then the item assignment and the
\* append: what each raises on a document or a value of another type
add_attestation_to_manifest(file, attestation) ==
    IF file.t \in {"none", "int", "date"} THEN Raise("TypeError")
    ELSE IF file.t = "str" THEN Raise("TypeError")
    ELSE IF file.t = "list" THEN Raise("TypeError")
    ELSE LET m1 == IF DictHas(file, K_attestations) THEN file
                   ELSE DictSet(file, K_attestations, PyList(<<>>))
             attestations == DictGet(m1, K_attestations, PyNone)
         IN IF attestations.t # "list" THEN Raise("AttributeError")
            ELSE Return(DictSet(m1, K_attestations,
                                PyList(Append(attestations.v, attestation))))

RECURSIVE verify_all_loop(_, _, _)
\* the loop of verify_all_attestations from index i on, `results` so far
verify_all_loop(attestations, i, results) ==
    IF i > Len(attestations) THEN Return(results)
    ELSE LET r == verify_attestation(attestations[i])
         IN IF ~Returned(r) THEN r
            ELSE verify_all_loop(attestations, i + 1,
                                 Append(results, <<i - 1, r.val[1], r.val[2]>>))

verify_all_attestations(manifest_data) ==
    IF manifest_data.t # "dict" THEN Raise("AttributeError")
    ELSE LET attestations == DictGet(manifest_data, K_attestations, PyList(<<>>))
         IN IF attestations.t \in {"none", "int", "date"} THEN Raise("TypeError")
            ELSE IF attestations.t = "str"
                 THEN (IF attestations.v = "" THEN Return(<<>>)
                       ELSE Raise("AttributeError"))
            ELSE IF attestations.t = "dict"
                 THEN (IF attestations.v = <<>> THEN Return(<<>>)
                       ELSE Raise("AttributeError"))
            ELSE verify_all_loop(attestations.v, 1, <<>>)

-----------------------------------------------------------------------------
(* The state machine: the keystore and one manifest file *)

Procs == {"p1", "p2"}

K_name == PyStr("name")
K_released == PyStr("released")
K_meta == PyStr("meta")

\* the manifest files the model starts from: plain, with a YAML date, with
\* a nested mapping keyed by an int, and with trust fields left by an
\* earlier signer
InitialManifests ==
    { PyDict(<< <<K_name, PyStr("bot")>> >>),
      PyDict(<< <<K_name, PyStr("bot")>>, <<K_released, PyDate("2024-01-01")>> >>),
      PyDict(<< <<K_name, PyStr("bot")>>,
                <<K_meta, PyDict(<< <<PyInt("1"), PyStr("x")>> >>)>> >>),
      PyDict(<< <<K_signed_at, PyStr("T0")>>, <<K_name, PyStr("bot")>>,
                <<K_signature, PyStr("stale")>>,
                <<K_public_key, PyStr(get_public_key_base64("k2"))>> >>) }

\* manifest files that hold no mapping: an empty document, a sequence, a
\* plain scalar
MalformedManifests == {PyNone, PyList(<<PyStr("bot")>>), PyStr("bot")}

NoFile == [state |-> "absent", data |-> PyDict(<<>>)]

InitShared ==
    /\ private_pem = ""
    /\ private_mode = ""
    /\ public_pem = ""
    /\ verifiers_file = NoFile
    /\ pc = [p \in Procs |-> "idle"]
    /\ verifiers = [p \in Procs |-> PyDict(<<>>)]
    /\ call = [p \in Procs |-> <<>>]
    /\ applied = PyDict(<<>>)
    /\ now = 0
    /\ ret = NoCall
    /\ edits = 0
    /\ last_signed = PyNone
    /\ resigned = FALSE
    /\ lists = <<>>
    /\ agents = [seq |-> 0, rows |-> <<>>]
    /\ version_history = <<>>

\* AGENTHUB_API_URL is not set: the store is the local SQLite file
InitCommon ==
    /\ InitShared
    /\ CRYPTOGRAPHY_AVAILABLE \in BOOLEAN
    /\ AGENTHUB_API_URL = ""

Init ==
    /\ InitCommon
    /\ args = <<>>
    /\ manifest_file \in InitialManifests \cup MalformedManifests

registry_vars == <<verifiers_file, pc, verifiers, call, applied>>

\* both key files exist
has_keypair == private_pem # "" /\ public_pem # ""

\* the permission bits save_keypair gives private.pem
OwnerOnly == "0600"

\* `agenthub trust keygen` run to its end: nothing is done when a keypair
\* exists
Keygen(k) ==
    /\ ~has_keypair
    /\ CRYPTOGRAPHY_AVAILABLE
    /\ private_pem' = k
    /\ private_mode' = OwnerOnly
    /\ public_pem' = PublicBytes(k)
    /\ ret' = Called("keygen", Return(<<>>))
    /\ UNCHANGED <<CRYPTOGRAPHY_AVAILABLE, store_vars, manifest_file, registry_vars, now,
                   args, edits, last_signed, resigned>>

SignManifestFile ==
    \E t \in now..MaxClock :
        LET out == sign_manifest_file(manifest_file, t)
        IN /\ ret' = Called("sign_manifest_file", out)
           /\ IF Returned(out)
              THEN /\ manifest_file' = out.val
                   /\ now' = t
                   /\ last_signed' = out.val
                   /\ resigned' = (last_signed = manifest_file)
              ELSE UNCHANGED <<manifest_file, now, last_signed, resigned>>
           /\ UNCHANGED <<CRYPTOGRAPHY_AVAILABLE, store_vars, keystore_vars, registry_vars,
                          args, edits>>

VerifyManifestFile ==
    /\ ret' = Called("verify_manifest_file", verify_manifest_file(manifest_file))
    /\ UNCHANGED <<CRYPTOGRAPHY_AVAILABLE, store_vars, keystore_vars, manifest_file,
                   registry_vars, now, args, edits, last_signed, resigned>>

\* the values an editor of the file may give a field
EditChoices(m) ==
    LET signature == DictGet(m, K_signature, PyNone)
        public_key == DictGet(m, K_public_key, PyNone)
        content == get_signable_content(m)
    IN { <<K_name, PyStr("evil")>>,
         <<K_released, PyStr("2024-01-01")>>,
         <<K_released, PyDate("2024-01-02")>>,
         <<K_meta, PyDict(<< <<PyStr("1"), PyStr("x")>> >>)>>,
         <<PyInt("5"), PyStr("x")>>,
         <<K_signed_at, PyStr("T9")>>,
         <<K_signature, PyInt("5")>> }
       \cup { <<K_public_key, PyStr(get_public_key_base64(k))>> : k \in Keys }
       \cup (IF signature.t = "str"
             THEN {<<K_signature, PyStr(signature.v \o " ")>>} ELSE {})
       \cup (IF public_key.t = "str"
             THEN {<<K_public_key, PyStr(public_key.v \o " ")>>} ELSE {})
       \cup (IF Returned(content)
             THEN {<<K_signature, PyStr(sign_content(content.val, k))>> : k \in Keys}
             ELSE {})

\* someone edits the manifest file: sets a field
EditManifest ==
    /\ edits < MaxEdits
    /\ manifest_file.t = "dict"
    /\ \E kv \in EditChoices(manifest_file) :
        /\ DictGet(manifest_file, kv[1], PyNone) # kv[2]
        /\ manifest_file' = DictSet(manifest_file, kv[1], kv[2])
    /\ edits' = edits + 1
    /\ ret' = Called("edit", Return(<<>>))
    /\ UNCHANGED <<CRYPTOGRAPHY_AVAILABLE, store_vars, keystore_vars, registry_vars, now,
                   args, last_signed, resigned>>

\* someone edits the manifest file: removes a field
RemoveField ==
    /\ edits < MaxEdits
    /\ manifest_file.t = "dict"
    /\ \E k \in {K_released, K_meta, K_signature, K_public_key, K_signed_at} :
        /\ DictHas(manifest_file, k)
        /\ manifest_file' = DictWithout(manifest_file, {k})
    /\ edits' = edits + 1
    /\ ret' = Called("edit", Return(<<>>))
    /\ UNCHANGED <<CRYPTOGRAPHY_AVAILABLE, store_vars, keystore_vars, registry_vars, now,
                   args, last_signed, resigned>>

Next ==
    \/ \E k \in Keys : Keygen(k)
    \/ SignManifestFile
    \/ VerifyManifestFile
    \/ EditManifest
    \/ RemoveField

Spec == Init /\ [][Next]_vars

-----------------------------------------------------------------------------
(* The state machine of the attestation ledger of one manifest file *)

A_signed(k) ==
    SignedAttestation(k, PyStr("test"), PyStr("ci"), PyStr("passed"),
                      PyNone, PyNone, 0).val

\* an attestation whose statement was changed after it was signed
A_tampered == DictSet(A_signed("k1"), K_statement, PyStr("failed"))

\* an entry of the list that is no mapping
A_not_mapping == PyStr("oops")

\* an attestation whose metadata mixes str and int keys
A_mixed_metadata ==
    DictSet(A_tampered, K_metadata,
            PyDict(<< <<PyInt("1"), PyStr("a")>>, <<PyStr("name"), PyStr("c")>> >>))

\* the attestations handed to add_attestation_to_manifest
AttestationInputs ==
    {A_signed("k1"), A_tampered, A_not_mapping, A_mixed_metadata}

\* the manifest files the ledger starts from: without a list, with a list,
\* and with `attestations:` left empty in the YAML
LedgerManifests ==
    { PyDict(<< <<K_name, PyStr("bot")>> >>),
      PyDict(<< <<K_name, PyStr("bot")>>,
                <<K_attestations, PyList(<<A_signed("k2")>>)>>,
                <<K_released, PyDate("2024-01-01")>> >>),
      PyDict(<< <<K_name, PyStr("bot")>>, <<K_attestations, PyNone>> >>) }

InitLedger ==
    /\ InitCommon
    /\ args = <<>>
    /\ manifest_file \in LedgerManifests

\* manifest_data.get("attestations", []) when it is a list
AttList(m) ==
    IF m.t = "dict" /\ DictGet(m, K_attestations, PyNone).t = "list"
    THEN DictGet(m, K_attestations, PyNone).v
    ELSE <<>>

\* the attestation sign_attestation makes at time t, if it makes one
MadeAttestations(t) ==
    LET made == sign_attestation(PyStr("build"), PyStr("me"), PyStr("built"),
                                 PyStr("urn:me"), PyNone, t)
    IN IF Returned(made) THEN {made.val} ELSE {}

\* the call add_attestation_to_manifest(manifest_path, a), made at time t
AddAttestation(a, t) ==
    LET out == add_attestation_to_manifest(manifest_file, a)
    IN /\ args' = <<a>>
       /\ ret' = Called("add_attestation_to_manifest", out)
       /\ now' = t
       /\ manifest_file' = IF Returned(out) THEN out.val ELSE manifest_file

\* a call of add_attestation_to_manifest, with an attestation from outside or
\* one that sign_attestation has just made
AddAttestationToManifest ==
    /\ Len(AttList(manifest_file)) < MaxAttestations
    /\ \/ \E a \in AttestationInputs : AddAttestation(a, now)
       \/ \E t \in now..MaxClock : \E a \in MadeAttestations(t) : AddAttestation(a, t)
    /\ UNCHANGED <<CRYPTOGRAPHY_AVAILABLE, store_vars, keystore_vars, registry_vars, edits,
                   last_signed, resigned>>

VerifyAllAttestations ==
    /\ ret' = Called("verify_all_attestations", verify_all_attestations(manifest_file))
    /\ UNCHANGED <<CRYPTOGRAPHY_AVAILABLE, store_vars, keystore_vars, manifest_file,
                   registry_vars, now, args, edits, last_signed, resigned>>

NextLedger ==
    \/ \E k \in Keys : Keygen(k)
    \/ SignManifestFile
    \/ VerifyManifestFile
    \/ AddAttestationToManifest
    \/ VerifyAllAttestations

SpecLedger == InitLedger /\ [][NextLedger]_vars

-----------------------------------------------------------------------------
(* The trusted-verifier registry *)

K_description == PyStr("description")
K_added_at == PyStr("added_at")

\* load_trusted_verifiers(): no file gives {}, and so does an empty file
\* (`yaml.safe_load(f) or {}`)
load_trusted_verifiers ==
    IF verifiers_file.state = "data" THEN verifiers_file.data ELSE PyDict(<<>>)

\* the entries of the registry that carry public_key, in the order of the dict
EntriesWithKey(registry, public_key) ==
    SelectSeq(registry.v, LAMBDA kv : DictGet(kv[2], K_public_key, PyNone) = public_key)

\* a mutant: a registered name is trusted whatever key it presents
is_trusted_verifier_by_name(verifier_name, public_key) ==
    LET registry == load_trusted_verifiers
        matches == EntriesWithKey(registry, public_key)
    IN IF verifier_name.t \in {"list", "dict"} THEN Raise("TypeError")
       ELSE IF DictHas(registry, verifier_name) THEN Return(<<TRUE, verifier_name>>)
       ELSE IF matches # <<>> THEN Return(<<TRUE, matches[1][1]>>)
       ELSE Return(<<FALSE, PyNone>>)

\* a mutant: the search by key alone, without the exact match first
is_trusted_verifier_by_key_only(verifier_name, public_key) ==
    LET registry == load_trusted_verifiers
        matches == EntriesWithKey(registry, public_key)
    IN IF verifier_name.t \in {"list", "dict"} THEN Raise("TypeError")
       ELSE IF matches # <<>> THEN Return(<<TRUE, matches[1][1]>>)
       ELSE Return(<<FALSE, PyNone>>)

\* `verifier_name in verifiers` raises TypeError for an unhashable name
is_trusted_verifier(verifier_name, public_key) ==
    LET registry == load_trusted_verifiers
        matches == EntriesWithKey(registry, public_key)
    IN IF verifier_name.t \in {"list", "dict"} THEN Raise("TypeError")
       ELSE IF /\ DictHas(registry, verifier_name)
               /\ DictGet(DictGet(registry, verifier_name, PyNone),
                          K_public_key, PyNone) = public_key
            THEN Return(<<TRUE, verifier_name>>)
       ELSE IF matches # <<>> THEN Return(<<TRUE, matches[1][1]>>)
       ELSE Return(<<FALSE, PyNone>>)

\* a mutant: the registry is asked whether or not the signature is valid
verify_attestation_trusted_unchecked(attestation_data) ==
    LET checked == verify_attestation(attestation_data)
        trusted == is_trusted_verifier(DictGet(attestation_data, K_verifier, PyStr("")),
                                       DictGet(attestation_data, K_public_key, PyStr("")))
    IN IF ~Returned(checked) THEN checked
       ELSE IF ~Returned(trusted) THEN trusted
       ELSE Return(<<checked.val[1], checked.val[2], trusted.val[1], trusted.val[2]>>)

verify_attestation_trusted(attestation_data) ==
    LET checked == verify_attestation(attestation_data)
        verifier_name == DictGet(attestation_data, K_verifier, PyStr(""))
        public_key == DictGet(attestation_data, K_public_key, PyStr(""))
        trusted == is_trusted_verifier(verifier_name, public_key)
    IN IF ~Returned(checked) THEN checked
       ELSE IF ~checked.val[1]
            THEN Return(<<FALSE, checked.val[2], FALSE, PyNone>>)
       ELSE IF ~Returned(trusted) THEN trusted
       ELSE Return(<<TRUE, "None", trusted.val[1], trusted.val[2]>>)

\* the entry add_trusted_verifier stores, at clock value t
VerifierEntry(public_key, description, t) ==
    PyDict(<< <<K_public_key, public_key>>, <<K_added_at, PyStr(IsoFormat(t))>>,
              <<K_description, description>> >>)

\* the process that runs the registry commands
RegistryProcs == {"p1"}

VerifierNames == {PyStr("ci"), PyStr("ci2")}
VerifierKeys == {PyStr(get_public_key_base64(k)) : k \in Keys}
\* the arguments add_trusted_verifier is called with: each name with each
\* key, with and without a description
VerifierInputs ==
    { <<PyStr("ci"), PyStr(get_public_key_base64("k1")), PyStr("")>>,
      <<PyStr("ci"), PyStr(get_public_key_base64("k2")), PyStr("CI")>>,
      <<PyStr("ci2"), PyStr(get_public_key_base64("k1")), PyStr("CI")>>,
      <<PyStr("ci2"), PyStr(get_public_key_base64("k2")), PyStr("")>> }

manifest_vars == <<manifest_file, edits, last_signed, resigned>>

\* add_trusted_verifier up to the call of save_trusted_verifiers
AddTrustedVerifier(p, name, public_key, description) ==
    /\ pc[p] = "idle"
    /\ \E t \in now..MaxClock :
        /\ now' = t
        /\ verifiers' = [verifiers EXCEPT ![p] =
                DictSet(load_trusted_verifiers, name,
                        VerifierEntry(public_key, description, t))]
    /\ call' = [call EXCEPT ![p] = <<"add_trusted_verifier", name, public_key,
                                     load_trusted_verifiers, description>>]
    /\ pc' = [pc EXCEPT ![p] = "save"]
    /\ ret' = NoCall
    /\ UNCHANGED <<CRYPTOGRAPHY_AVAILABLE, store_vars, keystore_vars, manifest_vars,
                   verifiers_file, applied, args>>

\* remove_trusted_verifier up to the call of save_trusted_verifiers, or to
\* `return False`
RemoveTrustedVerifier(p, name) ==
    /\ pc[p] = "idle"
    /\ IF DictHas(load_trusted_verifiers, name)
       THEN /\ verifiers' = [verifiers EXCEPT ![p] =
                    DictWithout(load_trusted_verifiers, {name})]
            /\ call' = [call EXCEPT ![p] = <<"remove_trusted_verifier", name,
                                             PyNone, load_trusted_verifiers>>]
            /\ pc' = [pc EXCEPT ![p] = "save"]
            /\ ret' = NoCall
            /\ UNCHANGED args
       ELSE /\ ret' = Called("remove_trusted_verifier", Return(FALSE))
            /\ args' = <<name, PyNone>>
            /\ UNCHANGED <<verifiers, call, pc>>
    /\ UNCHANGED <<CRYPTOGRAPHY_AVAILABLE, store_vars, keystore_vars, manifest_vars,
                   verifiers_file, applied, now>>

\* save_trusted_verifiers: open(path, "w") creates the file or truncates it
SaveOpen(p) ==
    /\ pc[p] = "save"
    /\ verifiers_file' = [state |-> "empty", data |-> PyDict(<<>>)]
    /\ pc' = [pc EXCEPT ![p] = "write"]
    /\ ret' = NoCall
    /\ UNCHANGED <<CRYPTOGRAPHY_AVAILABLE, store_vars, keystore_vars, manifest_vars,
                   verifiers, call, applied, now, args>>

\* save_trusted_verifiers: yaml.dump and the close of the file, after which
\* the command returns
YamlDump(p) ==
    /\ pc[p] = "write"
    /\ verifiers_file' = [state |-> "data", data |-> verifiers[p]]
    /\ pc' = [pc EXCEPT ![p] = "idle"]
    /\ args' = <<call[p][2], call[p][3]>>
    /\ ret' = Called(call[p][1],
                     IF call[p][1] = "remove_trusted_verifier"
                     THEN Return(TRUE) ELSE Return(<<>>))
    /\ verifiers' = [verifiers EXCEPT ![p] = PyDict(<<>>)]
    /\ call' = [call EXCEPT ![p] = <<>>]
    /\ UNCHANGED <<CRYPTOGRAPHY_AVAILABLE, store_vars, keystore_vars, manifest_vars, now>>

\* the step of one process that runs the commands alone
SaveWrite(p) == YamlDump(p) /\ UNCHANGED applied

\* the same step, with the mutation that returns recorded in `applied`
SaveWriteApplied(p) ==
    /\ YamlDump(p)
    /\ applied' = IF call[p][1] = "remove_trusted_verifier"
                  THEN DictWithout(applied, {call[p][2]})
                  ELSE DictSet(applied, call[p][2],
                               DictGet(verifiers[p], call[p][2], PyNone))

\* the process dies inside save_trusted_verifiers: `args` keeps the registry
\* the command had loaded and the one it was saving
Crash(p) ==
    /\ pc[p] \in {"save", "write"}
    /\ pc' = [pc EXCEPT ![p] = "idle"]
    /\ args' = <<call[p][4], verifiers[p]>>
    /\ ret' = Called("crash", Raise("killed"))
    /\ verifiers' = [verifiers EXCEPT ![p] = PyDict(<<>>)]
    /\ call' = [call EXCEPT ![p] = <<>>]
    /\ UNCHANGED <<CRYPTOGRAPHY_AVAILABLE, store_vars, keystore_vars, manifest_vars,
                   verifiers_file, applied, now>>

IsTrustedVerifier(verifier_name, public_key) ==
    /\ args' = <<verifier_name, public_key>>
    /\ ret' = Called("is_trusted_verifier",
                     is_trusted_verifier(verifier_name, public_key))
    /\ UNCHANGED <<CRYPTOGRAPHY_AVAILABLE, store_vars, keystore_vars, manifest_vars,
                   registry_vars, now>>

\* an attestation that is validly signed by k1 but names the key of k2
A_wrong_key ==
    DictSet(A_signed("k1"), K_public_key, PyStr(get_public_key_base64("k2")))

VerifyAttestationTrusted(attestation_data) ==
    /\ args' = <<attestation_data>>
    /\ ret' = Called("verify_attestation_trusted",
                     verify_attestation_trusted(attestation_data))
    /\ UNCHANGED <<CRYPTOGRAPHY_AVAILABLE, store_vars, keystore_vars, manifest_vars,
                   registry_vars, now>>

InitRegistry ==
    /\ InitCommon
    /\ args = <<>>
    /\ manifest_file = PyDict(<<>>)

NextRegistry ==
    \/ \E p \in RegistryProcs, input \in VerifierInputs :
            AddTrustedVerifier(p, input[1], input[2], input[3])
    \/ \E p \in RegistryProcs, name \in VerifierNames : RemoveTrustedVerifier(p, name)
    \/ \E p \in RegistryProcs : SaveOpen(p)
    \/ \E p \in RegistryProcs : SaveWrite(p)
    \/ \E p \in RegistryProcs : Crash(p)
    \/ \E verifier_name \in VerifierNames \cup {PyStr("unknown-name")},
          public_key \in VerifierKeys :
            IsTrustedVerifier(verifier_name, public_key)
    \/ \E a \in {A_signed("k1"), A_signed("k2"), A_tampered, A_wrong_key,
                  A_not_mapping} :
            VerifyAttestationTrusted(a)

SpecRegistry == InitRegistry /\ [][NextRegistry]_vars

-----------------------------------------------------------------------------
(* verify_signature as a function of its three arguments *)

Content1 == JsonDumps(PyDict(<< <<K_name, PyStr("bot")>> >>))
Content2 == JsonDumps(PyDict(<< <<K_name, PyStr("evil")>> >>))

\* signature arguments: well formed (by either key, over either content),
\* with a character outside the alphabet, not base64, empty, of the wrong
\* length, not a str, and a public key in the place of the signature
SignatureInputs ==
    {PyStr(sign_content(c, k)) : c \in {Content1, Content2}, k \in Keys}
    \cup {PyStr(sign_content(c, k) \o " ") : c \in {Content1, Content2}, k \in Keys}
    \cup {PyStr("not base64!"), PyStr(""), PyStr(b64encode(ShortBytes)), PyNone,
          PyInt("5"), PyStr(get_public_key_base64("k1"))}

PublicKeyInputs ==
    {PyStr(get_public_key_base64(k)) : k \in Keys}
    \cup {PyStr(get_public_key_base64(k) \o " ") : k \in Keys}
    \cup {PyStr("not base64!"), PyStr(b64encode(ShortBytes)), PyNone,
          PyStr(sign_content(Content1, "k1"))}

InitVerify ==
    /\ InitCommon
    /\ manifest_file = PyDict(<<>>)
    /\ args \in {Content1, Content2} \X SignatureInputs \X PublicKeyInputs

CallVerifySignature ==
    /\ ret.op = "-"
    /\ ret' = Called("verify_signature", verify_signature(args[1], args[2], args[3]))
    /\ UNCHANGED <<CRYPTOGRAPHY_AVAILABLE, store_vars, keystore_vars, manifest_file,
                   registry_vars, now, args, edits, last_signed, resigned>>

NextVerify == CallVerifySignature

SpecVerify == InitVerify /\ [][NextVerify]_vars

\* the signature argument decodes to the signature that the private key of
\* the public key argument makes over the content
ProducedByMatchingKey(content, signature_b64, public_key_b64) ==
    /\ signature_b64.t = "str"
    /\ public_key_b64.t = "str"
    /\ \E k \in Keys :
        /\ public_key_b64.v \in {get_public_key_base64(k),
                                  get_public_key_base64(k) \o " "}
        /\ signature_b64.v \in {sign_content(content, k),
                                 sign_content(content, k) \o " "}

C4_FailClosed ==
    /\ Returned(ret.out)
    /\ ret.out.val \in BOOLEAN
    /\ ret.out.val = TRUE => ProducedByMatchingKey(args[1], args[2], args[3])
    /\ (args[2].t # "str" \/ args[3].t # "str") => ret.out.val = FALSE
    /\ args[2].v \in {"not base64!", "", b64encode(ShortBytes)} => ret.out.val = FALSE
    /\ args[3].v \in {"not base64!", b64encode(ShortBytes)} => ret.out.val = FALSE

(* C4, as claimed: verify_signature returns a bool for every input and never
   raises; True only for a signature made over that content by the private
   key of the given public key. *)
C4_Original == ret.op = "verify_signature" => C4_FailClosed

(* C4, amended: where the cryptography library is importable,
   verify_signature returns a bool for every input and never raises, False
   for every malformed input, and True only for a signature made over that
   content by the private key of the given public key. *)
C4_FailClosedWhenAvailable ==
    (ret.op = "verify_signature" /\ CRYPTOGRAPHY_AVAILABLE) => C4_FailClosed

\* a well-formed signature over the content, by another key than the given one
C4_Witness ==
    /\ ret.op = "verify_signature"
    /\ CRYPTOGRAPHY_AVAILABLE
    /\ args = <<Content1, PyStr(sign_content(Content1, "k2")),
                PyStr(get_public_key_base64("k1"))>>
    /\ Returned(ret.out)
    /\ ret.out.val = FALSE

-----------------------------------------------------------------------------
(* Properties of manifest signing, under Spec *)

Valid == Return(<<TRUE, "None">>)

SignReturned == ret.op = "sign_manifest_file" /\ Returned(ret.out)

TrustFields == {K_signature, K_public_key, K_signed_at}

(* C1: the manifest sign_manifest_file produces, as returned and as written
   to the file, verifies: verify_manifest_data and verify_manifest_file give
   (True, None), whether or not the file held trust fields before. *)
C1_SignVerifyRoundTrip ==
    SignReturned =>
        /\ verify_manifest_data(ret.out.val) = Valid
        /\ verify_manifest_file(manifest_file) = Valid

\* a manifest that carried another signer's trust fields has been signed
C1_Witness ==
    /\ SignReturned
    /\ manifest_file.v[1][1] = K_signed_at
    /\ DictGet(manifest_file, K_public_key, PyNone)
            = PyStr(get_public_key_base64("k1"))
    /\ verify_manifest_file(manifest_file) = Valid

(* C2: once a manifest verifies, an edit that changes, adds or removes a
   field other than signature, public_key and signed_at is detected: the
   claim has verify_manifest_file return (False, reason) afterwards, and so
   in particular not (True, None), which is what is stated here. *)
C2_TamperDetected ==
    [][ ( /\ ret'.op = "edit"
          /\ verify_manifest_file(manifest_file) = Valid
          /\ DictWithout(manifest_file', TrustFields)
                # DictWithout(manifest_file, TrustFields) )
        => verify_manifest_file(manifest_file') # Valid ]_vars

\* the values the trust fields are given to compare the signed content
TrustValues == {PyStr("x"), PyDate("2024-01-01")}

\* manifests that differ from m in the trust fields only: some of the fields
\* removed, one field given a value, all three given a value
TrustVariants(m) ==
    { DictWithout(m, S) : S \in SUBSET TrustFields }
    \cup { DictSet(m, k, x) : k \in TrustFields, x \in TrustValues }
    \cup { DictSet(DictSet(DictSet(m, K_signature, x), K_public_key, x), K_signed_at, x) :
                x \in TrustValues }

\* every one of the manifests has this signed content
AllHaveContent(manifests, content) ==
    \A m \in manifests : get_signable_content(m) = content

C3_ContentIgnoresTrustFields ==
    manifest_file.t = "dict" =>
        AllHaveContent(TrustVariants(manifest_file),
                       get_signable_content(manifest_file))

C3_ResignStep ==
    ( /\ ret'.op = "sign_manifest_file"
      /\ Returned(ret'.out)
      /\ last_signed = manifest_file )
    => ( /\ DictGet(manifest_file', K_signature, PyNone)
                = DictGet(manifest_file, K_signature, PyNone)
         /\ DictGet(manifest_file', K_public_key, PyNone)
                = DictGet(manifest_file, K_public_key, PyNone) )

(* C3: the signed content is the same for two manifests that differ only in
   signature, public_key or signed_at; and signing again a file that is as
   the last signing left it gives the same signature and public_key. *)
C3_TrustFieldsExcluded ==
    []C3_ContentIgnoresTrustFields /\ [][C3_ResignStep]_vars

\* a signed file was signed again, at a later time
C3_Witness ==
    /\ SignReturned
    /\ resigned
    /\ DictGet(manifest_file, K_signed_at, PyNone) = PyStr(IsoFormat(1))
    /\ DictHas(manifest_file, K_released)

-----------------------------------------------------------------------------
(* Properties of the attestation ledger, under SpecLedger *)

(* C9: verify_all_attestations evaluates every attestation independently:
   on a manifest with n attestations, each attestation i that
   verify_attestation can evaluate alone gets its result (i, valid, reason)
   at position i of the n results, whatever the other entries are.  Stated
   for an installation that has the cryptography library. *)
C9_VerifyAllIndependent ==
    ( /\ ret.op = "verify_all_attestations"
      /\ CRYPTOGRAPHY_AVAILABLE
      /\ manifest_file.t = "dict"
      /\ DictGet(manifest_file, K_attestations, PyList(<<>>)).t = "list" )
    => LET attestations == AttList(manifest_file)
       IN \A i \in 1..Len(attestations) :
            Returned(verify_attestation(attestations[i])) =>
                /\ Returned(ret.out)
                /\ Len(ret.out.val) = Len(attestations)
                /\ ret.out.val[i] =
                        <<i - 1, verify_attestation(attestations[i]).val[1],
                          verify_attestation(attestations[i]).val[2]>>

IsPrefix(s, u) == Len(s) <= Len(u) /\ \A i \in 1..Len(s) : s[i] = u[i]

C10_Step ==
    /\ IsPrefix(AttList(manifest_file), AttList(manifest_file'))
    /\ ( /\ ret'.op = "add_attestation_to_manifest"
         /\ Returned(ret'.out)
         /\ <<manifest_file, now, args, ret>>' # <<manifest_file, now, args, ret>> )
       => ( /\ AttList(manifest_file') = Append(AttList(manifest_file), args'[1])
            /\ manifest_file' = ret'.out.val
            /\ DictWithout(manifest_file', {K_attestations})
                    = DictWithout(manifest_file, {K_attestations}) )

(* C10: add_attestation_to_manifest puts the new attestation at the end of
   the list and changes no existing attestation and no other field; and no
   operation of the signing module removes, reorders or rewrites an entry:
   the list before a step is a prefix of the list after it. *)
C10_LedgerAppendOnly == [][C10_Step]_vars

\* a second attestation was appended to a signed manifest
C10_Witness ==
    /\ ret.op = "add_attestation_to_manifest"
    /\ Returned(ret.out)
    /\ Len(AttList(manifest_file)) = 2
    /\ AttList(manifest_file)[2] = args[1]
    /\ DictHas(manifest_file, K_signature)

-----------------------------------------------------------------------------
(* Properties of the trusted-verifier registry, under SpecRegistry *)

\* the public key the registry holds for a name
RegisteredKey(name) ==
    DictGet(DictGet(load_trusted_verifiers, name, PyDict(<<>>)), K_public_key, PyNone)

\* the names the registry holds with a public key
NamesWithKey(public_key) ==
    {name \in DictKeys(load_trusted_verifiers) : RegisteredKey(name) = public_key}

(* C5: verify_attestation_trusted never reports trusted without valid; when
   the signature check of the attestation fails with a reason, the result
   is (False, reason, False, None), whatever the registry holds. *)
C5_TrustNeedsValidSignature ==
    ret.op = "verify_attestation_trusted" =>
        LET checked == verify_attestation(args[1])
        IN /\ Returned(ret.out) => (ret.out.val[3] => ret.out.val[1])
           /\ (Returned(checked) /\ ~checked.val[1]) =>
                /\ Returned(ret.out)
                /\ ret.out.val = <<FALSE, checked.val[2], FALSE, PyNone>>

\* a forged attestation names a verifier and a key that the registry trusts
C5_Witness ==
    /\ ret.op = "verify_attestation_trusted"
    /\ args[1] = A_wrong_key
    /\ RegisteredKey(PyStr("ci")) = PyStr(get_public_key_base64("k2"))
    /\ Returned(ret.out)
    /\ ret.out.val[1] = FALSE
    /\ ret.out.val[3] = FALSE

(* C6: is_trusted_verifier(name, key) gives trusted = True only if an entry
   of the registry, as it is then, has exactly that public key. *)
C6_TrustAnchoredToKey ==
    (ret.op = "is_trusted_verifier" /\ Returned(ret.out) /\ ret.out.val[1]) =>
        NamesWithKey(args[2]) # {}

\* the name asked about is registered, with another key, and is not trusted
C6_Witness ==
    /\ ret.op = "is_trusted_verifier"
    /\ DictHas(load_trusted_verifiers, args[1])
    /\ RegisteredKey(args[1]) # args[2]
    /\ Returned(ret.out)
    /\ ret.out.val = <<FALSE, PyNone>>

\* the results C7 allows for is_trusted_verifier(name, public_key)
C7_Expected(name, public_key) ==
    IF DictHas(load_trusted_verifiers, name) /\ RegisteredKey(name) = public_key
    THEN {<<TRUE, name>>}
    ELSE IF NamesWithKey(public_key) # {}
         THEN {<<TRUE, m>> : m \in NamesWithKey(public_key)}
         ELSE {<<FALSE, PyNone>>}

(* C7: is_trusted_verifier(n, k) is (True, n) when the registry maps n to k;
   otherwise (True, m) for a name m registered with k when there is one;
   otherwise (False, None).  Right after add(n, k) it is (True, n); right
   after remove(n) returned True, n is trusted with a key only under another
   name that carries that key. *)
C7_IsTrustedResult ==
    /\ ret.op = "is_trusted_verifier" =>
            /\ Returned(ret.out)
            /\ ret.out.val \in C7_Expected(args[1], args[2])
    /\ ret.op = "add_trusted_verifier" =>
            /\ Returned(is_trusted_verifier(args[1], args[2]))
            /\ is_trusted_verifier(args[1], args[2]).val = <<TRUE, args[1]>>
    /\ (ret.op = "remove_trusted_verifier" /\ ret.out.val = TRUE) =>
            \A k \in VerifierKeys :
                LET trusted == is_trusted_verifier(args[1], k).val
                IN IF NamesWithKey(k) = {} THEN trusted = <<FALSE, PyNone>>
                   ELSE /\ trusted[1]
                        /\ trusted[2] # args[1]
                        /\ trusted[2] \in NamesWithKey(k)

\* a name that is not registered is trusted through its key, under the
\* second of two names that carry it, the first having been removed
C7_Witness ==
    /\ ret.op = "is_trusted_verifier"
    /\ args[1] = PyStr("unknown-name")
    /\ Returned(ret.out)
    /\ ret.out.val = <<TRUE, PyStr("ci2")>>
    /\ DictKeys(load_trusted_verifiers) = {PyStr("ci2")}

(* C8: after a crash at any point of save_trusted_verifiers the registry
   file is the complete previous registry or the complete new one, so that
   load_trusted_verifiers returns the previous or the new mapping. *)
C8_AtomicReplace ==
    ret.op = "crash" => load_trusted_verifiers \in {args[1], args[2]}

-----------------------------------------------------------------------------
(* The state machine of one attestation: signed, edited from outside, and  *)
(* verified.  args holds the attestation.                                  *)

\* the arguments sign_attestation is called with
AttestationTypes == {PyStr("test")}
AttestationVerifiers == {PyStr("ci")}
AttestationStatements == {PyStr("passed")}
AttestationVerifierIds == {PyNone, PyStr("urn:ci")}
AttestationMetadata ==
    { PyNone,
      PyDict(<< <<PyInt("1"), PyStr("x")>> >>),
      PyDict(<< <<K_released, PyDate("2024-01-01")>> >>),
      PyDict(<< <<PyInt("1"), PyStr("a")>>, <<PyStr("name"), PyStr("c")>> >>) }

InitAttestation ==
    /\ InitCommon
    /\ manifest_file = PyDict(<<>>)
    /\ args = <<PyNone>>

SignAttestation ==
    \E t \in now..MaxClock :
    \E attestation_type \in AttestationTypes, verifier \in AttestationVerifiers,
       statement \in AttestationStatements, verifier_id \in AttestationVerifierIds,
       metadata \in AttestationMetadata :
        LET out == sign_attestation(attestation_type, verifier, statement,
                                    verifier_id, metadata, t)
        IN /\ ret' = Called("sign_attestation", out)
           /\ args' = IF Returned(out) THEN <<out.val>> ELSE args
           /\ now' = IF Returned(out) THEN t ELSE now
           /\ edits' = IF Returned(out) THEN 0 ELSE edits
           /\ UNCHANGED <<CRYPTOGRAPHY_AVAILABLE, store_vars, keystore_vars, manifest_file,
                          registry_vars, last_signed, resigned>>

\* the values an editor may give a field of the attestation
AttestationEdits ==
    { <<K_type, PyStr("build")>>,
      <<K_verifier, PyStr("evil")>>,
      <<K_verifier_id, PyStr("urn:evil")>>,
      <<K_statement, PyStr("failed")>>,
      <<K_timestamp, PyStr("T9")>>,
      <<K_metadata, PyDict(<< <<PyStr("1"), PyStr("x")>> >>)>>,
      <<K_metadata, PyDict(<< <<K_released, PyStr("2024-01-01")>> >>)>>,
      <<K_signature, PyStr("stale")>>,
      <<K_public_key, PyStr(get_public_key_base64("k2"))>> }

\* someone changes a field of the signed attestation
EditAttestation ==
    /\ edits < MaxEdits
    /\ args[1].t = "dict"
    /\ \E kv \in AttestationEdits :
        /\ DictGet(args[1], kv[1], PyNone) # kv[2]
        /\ args' = <<DictSet(args[1], kv[1], kv[2])>>
    /\ edits' = edits + 1
    /\ ret' = Called("edit_attestation", Return(<<>>))
    /\ UNCHANGED <<CRYPTOGRAPHY_AVAILABLE, store_vars, keystore_vars, manifest_file,
                   registry_vars, now, last_signed, resigned>>

VerifyAttestation ==
    /\ args[1].t = "dict"
    /\ ret' = Called("verify_attestation", verify_attestation(args[1]))
    /\ UNCHANGED <<CRYPTOGRAPHY_AVAILABLE, store_vars, keystore_vars, manifest_file,
                   registry_vars, now, args, edits, last_signed, resigned>>

NextAttestation ==
    \/ \E k \in Keys : Keygen(k)
    \/ SignAttestation
    \/ EditAttestation
    \/ VerifyAttestation

SpecAttestation == InitAttestation /\ [][NextAttestation]_vars

-----------------------------------------------------------------------------
(* Properties of one attestation, under SpecAttestation *)

AttestationTrustFields == {K_signature, K_public_key}

C11_RoundTrip ==
    (ret.op = "sign_attestation" /\ Returned(ret.out)) =>
        verify_attestation(ret.out.val) = Valid

C11_TamperStep ==
    ( /\ ret'.op = "edit_attestation"
      /\ verify_attestation(args[1]) = Valid
      /\ DictWithout(args'[1], AttestationTrustFields)
            # DictWithout(args[1], AttestationTrustFields) )
    => verify_attestation(args'[1]) # Valid

(* C11: the attestation sign_attestation returns verifies, (True, None)
   (C11_RoundTrip); and once an attestation verifies, a change of its type,
   verifier, verifier_id, statement, timestamp or metadata is detected: the
   claim has verify_attestation return (False, reason) afterwards, and so in
   particular not (True, None), which is what is stated here. *)
C11_AttestationTamperDetected == [][C11_TamperStep]_vars

-----------------------------------------------------------------------------
(* Properties of the verification of unsigned manifests, under Spec *)

(* C12: on a mapping without a signature verify_manifest_file and
   verify_manifest_data return (False, "not signed" reason); on one with a
   signature and without a public_key they return (False, "missing public
   key" reason).  They return it where verify_signature would raise (the
   cryptography library is absent), so verify_signature is not called. *)
C12_UnsignedIsAValue ==
    (ret.op = "verify_manifest_file" /\ manifest_file.t = "dict") =>
        /\ ~DictHas(manifest_file, K_signature) =>
                /\ ret.out = Return(<<FALSE, "Manifest is not signed (no signature field)">>)
                /\ verify_manifest_data(manifest_file)
                        = Return(<<FALSE, "Manifest is not signed">>)
        /\ ( /\ Truthy(DictGet(manifest_file, K_signature, PyNone))
             /\ ~DictHas(manifest_file, K_public_key) ) =>
                /\ ret.out = Return(<<FALSE, "Manifest is missing public_key field">>)
                /\ verify_manifest_data(manifest_file)
                        = Return(<<FALSE, "Missing public key">>)

\* a manifest with a signature and no public_key was verified where the
\* cryptography library is absent
C12_Witness ==
    /\ ret.op = "verify_manifest_file"
    /\ ~CRYPTOGRAPHY_AVAILABLE
    /\ manifest_file.t = "dict"
    /\ DictHas(manifest_file, K_signature)
    /\ ~DictHas(manifest_file, K_public_key)
    /\ Returned(ret.out)
    /\ ret.out.val = <<FALSE, "Manifest is missing public_key field">>

(* C13: verify_manifest_file and verify_manifest_data never raise: whatever
   the parsed content of the manifest is, the outcome is a (bool, reason)
   pair. *)
C13_VerifyNeverRaises ==
    ret.op = "verify_manifest_file" =>
        /\ Returned(ret.out)
        /\ Returned(verify_manifest_data(manifest_file))

-----------------------------------------------------------------------------
(* Properties of the registry commands, under SpecRegistry *)

\* the entry the registry holds for a name, {} when it holds none
RegistryEntry(registry, name) == DictGet(registry, name, PyDict(<<>>))

\* the number of entries the registry holds for a name
EntryCount(registry, name) ==
    Cardinality({i \in 1..Len(registry.v) : registry.v[i][1] = name})

\* the step on which process p's add_trusted_verifier(name, ...) returns:
\* call[p] holds its arguments and the registry as it was when it was called
C14_Step ==
    \A p \in RegistryProcs :
        (pc[p] = "write" /\ ret'.op = "add_trusted_verifier") =>
            LET name == call[p][2]
                before == call[p][4]
                after == load_trusted_verifiers'
            IN /\ EntryCount(after, name) = 1
               /\ DictGet(RegistryEntry(after, name), K_public_key, PyNone) = call[p][3]
               /\ DictGet(RegistryEntry(after, name), K_description, PyNone) = call[p][5]
               /\ DictKeys(after) = DictKeys(before) \cup {name}
               /\ \A m \in DictKeys(before) \ {name} :
                    /\ EntryCount(after, m) = 1
                    /\ RegistryEntry(after, m) = RegistryEntry(before, m)

(* C14: when add_trusted_verifier(n, k, d) returns, the registry maps n to
   one entry, with public_key k and description d, whether or not it held
   an entry for n before; it holds the names it held and n, and the entries
   of the other names are as they were. *)
C14_AddIsUpsert == [][C14_Step]_vars

\* the entry of "ci", made before that of "ci2", has been overwritten later
C14_Witness ==
    /\ ret.op = "add_trusted_verifier"
    /\ args[1] = PyStr("ci")
    /\ Len(load_trusted_verifiers.v) = 2
    /\ load_trusted_verifiers.v[1][1] = PyStr("ci")
    /\ load_trusted_verifiers.v[2][1] = PyStr("ci2")
    /\ DictGet(load_trusted_verifiers.v[1][2], K_added_at, PyNone) = PyStr(IsoFormat(1))
    /\ DictGet(load_trusted_verifiers.v[2][2], K_added_at, PyNone) = PyStr(IsoFormat(0))
    /\ DictGet(load_trusted_verifiers.v[1][2], K_description, PyNone) = PyStr("CI")

\* the step on which process p's remove_trusted_verifier(name) returns:
\* True after the save, False at once
C15_Step ==
    \A p \in RegistryProcs :
        /\ (pc[p] = "write" /\ ret'.op = "remove_trusted_verifier") =>
                LET name == call[p][2]
                    before == call[p][4]
                    after == load_trusted_verifiers'
                IN /\ ret'.out = Return(TRUE)
                   /\ DictHas(before, name)
                   /\ ~DictHas(after, name)
                   /\ DictKeys(after) = DictKeys(before) \ {name}
                   /\ \A m \in DictKeys(after) :
                        /\ EntryCount(after, m) = 1
                        /\ RegistryEntry(after, m) = RegistryEntry(before, m)
        /\ (pc[p] = "idle" /\ ret'.op = "remove_trusted_verifier") =>
                /\ ret'.out = Return(FALSE)
                /\ ~DictHas(load_trusted_verifiers, args'[1])
                /\ verifiers_file' = verifiers_file
        /\ (pc[p] = "idle" /\ pc'[p] = "save" /\ call'[p][1] = "remove_trusted_verifier") =>
                DictHas(load_trusted_verifiers, call'[p][2])

(* C15: remove_trusted_verifier(n) returns True exactly when the registry
   held an entry n: then the registry has no entry n afterwards and the other
   entries are as they were.  When it held none the call returns False, does
   not raise, and leaves the registry file as it was. *)
C15_RemoveReturnsWhetherFound == [][C15_Step]_vars

\* "ci" was removed from a registry that held "ci" and "ci2"
C15_Witness ==
    /\ ret.op = "remove_trusted_verifier"
    /\ ret.out.val = TRUE
    /\ args[1] = PyStr("ci")
    /\ DictKeys(load_trusted_verifiers) = {PyStr("ci2")}

-----------------------------------------------------------------------------
(* The state machine of the keystore: `agenthub trust keygen` step by step, *)
(* the process may die between the steps; manifests are signed meanwhile.  *)

\* the permission bits a file is created with, 0o666 masked by the umask of
\* the process (022, 002, 077)
CreateModes == {"0644", "0664", "0600"}

InitKeystore ==
    /\ InitCommon
    /\ args = <<>>
    /\ manifest_file \in {PyDict(<< <<K_name, PyStr("bot")>> >>), NoManifest}

\* keygen up to the call of save_keypair: has_keypair, generate_keypair
KeygenStart(p, k) ==
    /\ pc[p] = "idle"
    /\ IF has_keypair
       THEN /\ ret' = Called("keygen", Return(<<>>))
            /\ UNCHANGED <<pc, call>>
       ELSE IF ~CRYPTOGRAPHY_AVAILABLE
       THEN /\ ret' = Called("keygen", Raise("SystemExit"))
            /\ UNCHANGED <<pc, call>>
       ELSE /\ call' = [call EXCEPT ![p] = <<"keygen", k>>]
            /\ pc' = [pc EXCEPT ![p] = "write_private"]
            /\ ret' = NoCall
    /\ UNCHANGED <<CRYPTOGRAPHY_AVAILABLE, store_vars, keystore_vars, manifest_vars,
                   verifiers_file, applied, verifiers, now, args>>

\* save_keypair: private_path.write_bytes(private_pem) creates the file with
\* the default permission bits, or rewrites the file that exists
WritePrivate(p) ==
    /\ pc[p] = "write_private"
    /\ private_pem' = call[p][2]
    /\ IF private_pem = ""
       THEN private_mode' \in CreateModes
       ELSE private_mode' = private_mode
    /\ pc' = [pc EXCEPT ![p] = "chmod"]
    /\ ret' = NoCall
    /\ UNCHANGED <<CRYPTOGRAPHY_AVAILABLE, store_vars, public_pem, manifest_vars,
                   verifiers_file, applied, verifiers, call, now, args>>

\* save_keypair: private_path.chmod(0o600)
ChmodPrivate(p) ==
    /\ pc[p] = "chmod"
    /\ private_mode' = OwnerOnly
    /\ pc' = [pc EXCEPT ![p] = "write_public"]
    /\ ret' = NoCall
    /\ UNCHANGED <<CRYPTOGRAPHY_AVAILABLE, store_vars, private_pem, public_pem, manifest_vars,
                   verifiers_file, applied, verifiers, call, now, args>>

\* save_keypair: public_path.write_bytes(public_pem), after which keygen
\* returns
WritePublic(p) ==
    /\ pc[p] = "write_public"
    /\ public_pem' = PublicBytes(call[p][2])
    /\ pc' = [pc EXCEPT ![p] = "idle"]
    /\ call' = [call EXCEPT ![p] = <<>>]
    /\ ret' = Called("keygen", Return(<<>>))
    /\ UNCHANGED <<CRYPTOGRAPHY_AVAILABLE, store_vars, private_pem, private_mode, manifest_vars,
                   verifiers_file, applied, verifiers, now, args>>

\* the process dies inside save_keypair
CrashKeygen(p) ==
    /\ pc[p] \in {"write_private", "chmod", "write_public"}
    /\ pc' = [pc EXCEPT ![p] = "idle"]
    /\ call' = [call EXCEPT ![p] = <<>>]
    /\ ret' = Called("crash", Raise("killed"))
    /\ UNCHANGED <<CRYPTOGRAPHY_AVAILABLE, store_vars, keystore_vars, manifest_vars,
                   verifiers_file, applied, verifiers, now, args>>

NextKeystore ==
    \/ \E p \in RegistryProcs, k \in Keys : KeygenStart(p, k)
    \/ \E p \in RegistryProcs : WritePrivate(p)
    \/ \E p \in RegistryProcs : ChmodPrivate(p)
    \/ \E p \in RegistryProcs : WritePublic(p)
    \/ \E p \in RegistryProcs : CrashKeygen(p)
    \/ SignManifestFile
    \/ VerifyManifestFile

SpecKeystore == InitKeystore /\ [][NextKeystore]_vars

-----------------------------------------------------------------------------
(* Properties of the keystore, under SpecKeystore *)

(* C16: a private.pem that holds the private key has no group or other
   access, in every state of save_keypair and after a crash at any step. *)
C16_PrivateKeyOwnerOnly ==
    private_pem # "" => private_mode = OwnerOnly

(* C17: once private.pem exists no command changes or replaces its content,
   a keygen run again after an interrupted one included. *)
C17_PrivateKeyNeverMutated ==
    [][private_pem # "" => private_pem' = private_pem]_vars

\* the failure of a signing call made without a private key can be told from
\* the failure of open(manifest_path)
NoKeypairFailure(out) == ~Returned(out) /\ out.exc # OpenError

(* C18: while no private key has been generated (and the cryptography
   library and the manifest file are there), sign_manifest_file and
   sign_attestation fail, with a condition that differs from the one a
   missing manifest file gives; no signature is produced and the manifest
   file is left as it was. *)
C18_MissingKeypairDistinguishable ==
    ( /\ ret.op = "sign_manifest_file"
      /\ private_pem = ""
      /\ CRYPTOGRAPHY_AVAILABLE
      /\ manifest_file # NoManifest )
    => /\ ~DictHas(manifest_file, K_signature)
       /\ NoKeypairFailure(sign_attestation(PyStr("test"), PyStr("ci"), PyStr("passed"),
                                            PyNone, PyNone, now))
       /\ NoKeypairFailure(ret.out)

-----------------------------------------------------------------------------
(* Canonical content as a function of the record: the same record is built *)
(* with other insertion orders of its keys, at any depth, and serialised.  *)

K_version == PyStr("version")

\* records with nested mappings, a mapping inside a sequence, a date, int
\* keys, trust fields; and one whose nested keys cannot be sorted
CanonRecords ==
    { PyDict(<< <<K_name, PyStr("bot")>>,
                <<K_meta, PyDict(<< <<K_version, PyInt("5")>>,
                                    <<K_type, PyDict(<< <<K_statement, PyStr("s")>>,
                                                        <<K_released, PyDate("2024-01-01")>> >>)>>,
                                    <<K_name, PyNone>> >>)>>,
                <<K_signature, PyStr("stale")>>,
                <<K_version, PyStr("1")>> >>),
      PyDict(<< <<K_attestations,
                  PyList(<< PyDict(<< <<K_type, PyStr("test")>>,
                                      <<K_metadata, PyDict(<< <<PyInt("5"), PyStr("a")>>,
                                                              <<PyInt("1"), PyStr("b")>> >>)>>,
                                      <<K_statement, PyStr("passed")>> >>),
                            PyStr("x") >>)>>,
                <<K_name, PyStr("bot")>>,
                <<K_public_key, PyStr("pk")>> >>),
      PyDict(<< <<K_name, PyStr("bot")>>,
                <<K_meta, PyDict(<< <<PyInt("1"), PyStr("a")>>,
                                    <<K_name, PyStr("c")>> >>)>>,
                <<K_version, PyStr("1")>> >>) }

\* items i and i + 1 of a sequence in the other order
SwapItems(items, i) ==
    [j \in 1..Len(items) |->
        IF j = i THEN items[i + 1] ELSE IF j = i + 1 THEN items[i] ELSE items[j]]

RECURSIVE OneSwap(_)
\* the values that are x with two neighbouring keys of one of its mappings,
\* at any depth, inserted in the other order
OneSwap(x) ==
    IF x.t = "dict"
    THEN { PyDict(SwapItems(x.v, i)) : i \in 1..(Len(x.v) - 1) }
         \cup UNION { { PyDict([x.v EXCEPT ![i] = <<x.v[i][1], y>>]) : y \in OneSwap(x.v[i][2]) } :
                        i \in 1..Len(x.v) }
    ELSE IF x.t = "list"
    THEN UNION { { PyList([x.v EXCEPT ![i] = y]) : y \in OneSwap(x.v[i]) } :
                    i \in 1..Len(x.v) }
    ELSE {}

\* args keeps the record in its first insertion order
InitCanon ==
    /\ InitCommon
    /\ manifest_file \in CanonRecords
    /\ args = <<manifest_file>>

Reorder ==
    /\ \E m \in OneSwap(manifest_file) : manifest_file' = m
    /\ ret' = Called("reorder", Return(<<>>))
    /\ UNCHANGED <<CRYPTOGRAPHY_AVAILABLE, store_vars, keystore_vars, registry_vars, now,
                   args, edits, last_signed, resigned>>

GetSignableContent ==
    /\ ret' = Called("get_signable_content", get_signable_content(manifest_file))
    /\ UNCHANGED <<CRYPTOGRAPHY_AVAILABLE, store_vars, keystore_vars, manifest_file,
                   registry_vars, now, args, edits, last_signed, resigned>>

GetAttestationSignableContent ==
    /\ ret' = Called("get_attestation_signable_content",
                     get_attestation_signable_content(manifest_file))
    /\ UNCHANGED <<CRYPTOGRAPHY_AVAILABLE, store_vars, keystore_vars, manifest_file,
                   registry_vars, now, args, edits, last_signed, resigned>>

NextCanon ==
    \/ Reorder
    \/ GetSignableContent
    \/ GetAttestationSignableContent

SpecCanon == InitCanon /\ [][NextCanon]_vars

-----------------------------------------------------------------------------
(* Properties of the canonical content, under SpecCanon *)

\* two calls ended alike: the same text returned, or the same exception
SameOutcome(a, b) ==
    /\ a.exc = b.exc
    /\ Returned(a) => a.val = b.val

(* C19: get_signable_content and get_attestation_signable_content give for a
   record, whatever the insertion order of the keys of its mappings at any
   depth, what they give for the record in its first order. *)
C19_KeyOrderInvariant ==
    /\ ret.op = "get_signable_content" =>
            SameOutcome(ret.out, get_signable_content(args[1]))
    /\ ret.op = "get_attestation_signable_content" =>
            SameOutcome(ret.out, get_attestation_signable_content(args[1]))

\* content was returned for a record whose top-level keys and whose nested
\* mapping two levels down are in another order than at first
C19_Witness ==
    /\ ret.op = "get_signable_content"
    /\ Returned(ret.out)
    /\ DictHas(manifest_file, K_meta)
    /\ manifest_file.v[1][1] # args[1].v[1][1]
    /\ DictGet(DictGet(manifest_file, K_meta, PyNone), K_type, PyNone)
            # DictGet(DictGet(args[1], K_meta, PyNone), K_type, PyNone)

RECURSIVE Representable(_)
\* x is a string, a number, null, or a mapping or sequence of those
Representable(x) ==
    IF x.t = "dict"
    THEN \A i \in 1..Len(x.v) : Representable(x.v[i][1]) /\ Representable(x.v[i][2])
    ELSE IF x.t = "list"
    THEN \A i \in 1..Len(x.v) : Representable(x.v[i])
    ELSE x.t \in {"str", "int", "none"}

(* C20: for a record that holds a value which is not a string, number,
   boolean, null, mapping or sequence of those, get_signable_content fails
   with an error and returns no signable content. *)
C20_RefusesUnrepresentable ==
    (ret.op = "get_signable_content" /\ ~Representable(manifest_file))
        => ~Returned(ret.out)

-----------------------------------------------------------------------------
(* Agent identifiers (identity.py).  A str is the sequence of its           *)
(* characters here, so that the prefix test and the splits are computed.   *)

Text(chars) == [t |-> "str", v |-> chars]

IdPrefix == <<"a", "h", ":">>

\* the positions of character c in chars
Positions(chars, c) == { i \in 1..Len(chars) : chars[i] = c }

Max(S) == CHOOSE x \in S : \A y \in S : y <= x
Min(S) == CHOOSE x \in S : \A y \in S : x <= y

\* `if x:` for an Optional[str] -- neither None nor the empty str
TruthyText(fork_name) == fork_name.t = "str" /\ fork_name.v # <<>>

\* a mutant: the fork suffix is appended without its '+'
generate_agent_id_no_plus(author, name, fork_name) ==
    IF TruthyText(fork_name) THEN IdPrefix \o author \o <<"/">> \o name \o fork_name.v
    ELSE IdPrefix \o author \o <<"/">> \o name

\* author and name are str; fork_name is Text(..) or PyNone
generate_agent_id(author, name, fork_name) ==
    LET base == IdPrefix \o author \o <<"/">> \o name
    IN  IF TruthyText(fork_name) THEN base \o <<"+">> \o fork_name.v ELSE base

\* rest.split("/", 1) once "/" is known to be in rest
SplitAuthorName(rest, fork_name) ==
    LET i == Min(Positions(rest, "/"))
    IN  Return([author    |-> SubSeq(rest, 1, i - 1),
                name      |-> SubSeq(rest, i + 1, Len(rest)),
                fork_name |-> fork_name])

\* a mutant: the '/' is looked for in the whole text after the prefix
parse_agent_id_slash_anywhere(agent_id) ==
    IF ~(Len(agent_id) >= 3 /\ SubSeq(agent_id, 1, 3) = IdPrefix)
    THEN Raise("ValueError")
    ELSE LET rest == SubSeq(agent_id, 4, Len(agent_id))
         IN  IF Positions(rest, "/") = {} THEN Raise("ValueError")
             ELSE IF Positions(rest, "+") # {}
             THEN LET i == Max(Positions(rest, "+"))
                      head == SubSeq(rest, 1, i - 1)
                  IN  IF Positions(head, "/") = {}
                      THEN Return([author |-> head, name |-> <<>>,
                                   fork_name |-> Text(SubSeq(rest, i + 1, Len(rest)))])
                      ELSE SplitAuthorName(head, Text(SubSeq(rest, i + 1, Len(rest))))
             ELSE SplitAuthorName(rest, PyNone)

parse_agent_id(agent_id) ==
    IF ~(Len(agent_id) >= 3 /\ SubSeq(agent_id, 1, 3) = IdPrefix)
    THEN Raise("ValueError")
    ELSE LET rest == SubSeq(agent_id, 4, Len(agent_id))
         IN  IF Positions(rest, "+") # {}
             THEN \* rest, fork_name = rest.rsplit("+", 1)
                  LET i == Max(Positions(rest, "+"))
                      head == SubSeq(rest, 1, i - 1)
                  IN  IF Positions(head, "/") = {} THEN Raise("ValueError")
                      ELSE SplitAuthorName(head, Text(SubSeq(rest, i + 1, Len(rest))))
             ELSE IF Positions(rest, "/") = {} THEN Raise("ValueError")
             ELSE SplitAuthorName(rest, PyNone)

\* the texts over '+', '/' and a letter, of up to two characters
NameChars == {"a", "+", "/"}
Names == {<<>>} \cup { <<c>> : c \in NameChars } \cup { <<c, d>> : c, d \in NameChars }
ForkNames == { Text(n) : n \in Names } \cup {PyNone}

\* identifiers with a good, a damaged or no prefix, then up to three characters
IdHeads == {IdPrefix, <<"a", ":">>, <<"a", "h">>, <<>>}
IdRests == Names \cup { <<c, d, e>> : c, d, e \in NameChars }
Ids == { h \o r : h \in IdHeads, r \in IdRests }

\* args holds the arguments: author, name and fork_name, or an identifier
InitIdentity ==
    /\ InitCommon
    /\ manifest_file = NoManifest
    /\ \/ \E author \in Names, name \in Names, fork_name \in ForkNames :
             args = <<author, name, fork_name>>
       \/ \E agent_id \in Ids : args = <<agent_id>>

GenerateAgentId ==
    /\ Len(args) = 3
    /\ ret' = Called("generate_agent_id",
                     Return(generate_agent_id(args[1], args[2], args[3])))
    /\ UNCHANGED <<CRYPTOGRAPHY_AVAILABLE, store_vars, keystore_vars, manifest_file,
                   registry_vars, now, args, edits, last_signed, resigned>>

\* parse_agent_id of the identifier just generated
ParseGenerated ==
    /\ ret.op = "generate_agent_id"
    /\ ret' = Called("parse_agent_id", parse_agent_id(ret.out.val))
    /\ UNCHANGED <<CRYPTOGRAPHY_AVAILABLE, store_vars, keystore_vars, manifest_file,
                   registry_vars, now, args, edits, last_signed, resigned>>

ParseAgentId ==
    /\ Len(args) = 1
    /\ ret' = Called("parse_agent_id", parse_agent_id(args[1]))
    /\ UNCHANGED <<CRYPTOGRAPHY_AVAILABLE, store_vars, keystore_vars, manifest_file,
                   registry_vars, now, args, edits, last_signed, resigned>>

NextIdentity ==
    \/ GenerateAgentId
    \/ ParseGenerated
    \/ ParseAgentId

SpecIdentity == InitIdentity /\ [][NextIdentity]_vars

-----------------------------------------------------------------------------
(* Properties of the identifiers, under SpecIdentity *)

\* the state after parse_agent_id(generate_agent_id(author, name, fork_name))
ParsedGenerated == ret.op = "parse_agent_id" /\ Len(args) = 3

\* the components generate_agent_id was given are the ones parsed
SameComponents ==
    /\ Returned(ret.out)
    /\ ret.out.val.author = args[1]
    /\ ret.out.val.name = args[2]
    /\ ret.out.val.fork_name = IF TruthyText(args[3]) THEN args[3] ELSE PyNone

\* C21 as stated: author and name without '+', any fork_name
C21_Original ==
    ( /\ ParsedGenerated
      /\ Positions(args[1], "+") = {}
      /\ Positions(args[2], "+") = {} )
    => SameComponents

(* C21: parse_agent_id(generate_agent_id(author, name, fork_name)) returns
   author, name and fork_name (None when none or an empty one was given) for
   every author without '+' or '/', every name without '+', and every
   fork_name without '+'. *)
C21_ParseInvertsGenerate ==
    ( /\ ParsedGenerated
      /\ Positions(args[1], "+") = {} /\ Positions(args[1], "/") = {}
      /\ Positions(args[2], "+") = {}
      /\ args[3].t = "str" => Positions(args[3].v, "+") = {} )
    => SameComponents

\* an identifier with a fork, and a name holding '/', came back as given
C21_Witness ==
    /\ ParsedGenerated
    /\ args = << <<"a">>, <<"/", "a">>, Text(<<"a", "/">>) >>
    /\ SameComponents

\* the state after parse_agent_id of an identifier from outside
ParsedId == ret.op = "parse_agent_id" /\ Len(args) = 1

HasPrefix(agent_id) == Len(agent_id) >= 3 /\ SubSeq(agent_id, 1, 3) = IdPrefix

\* the text of agent_id after its last '+' (rest.rsplit("+", 1)[1])
AfterLastPlus(agent_id) ==
    SubSeq(agent_id, Max(Positions(agent_id, "+")) + 1, Len(agent_id))

\* the text of agent_id between the prefix and its last '+', or its end
BeforeFork(agent_id) ==
    IF Positions(agent_id, "+") = {} THEN SubSeq(agent_id, 4, Len(agent_id))
    ELSE SubSeq(agent_id, 4, Max(Positions(agent_id, "+")) - 1)

\* the parts of C22 about the errors
C22_Errors ==
    ( ParsedId /\ (~HasPrefix(args[1]) \/ Positions(args[1], "/") = {}) )
    => ret.out.exc = "ValueError"

\* C22 as stated: with the prefix and a '/' there is a result
C22_Original ==
    /\ C22_Errors
    /\ ( ParsedId /\ HasPrefix(args[1]) /\ Positions(args[1], "/") # {} )
       => /\ Returned(ret.out)
          /\ Positions(args[1], "+") # {} =>
                ret.out.val.fork_name = Text(AfterLastPlus(args[1]))

(* C22: parse_agent_id raises ValueError for every identifier that does not
   start with 'ah:' and for every one that has no '/' between the prefix and
   its last '+' (its end when it has no '+'); for every other identifier it
   returns author, name and fork_name, fork_name being the text after the
   last '+', None without a '+'. *)
C22_ParseErrors ==
    /\ C22_Errors
    /\ ( ParsedId /\ HasPrefix(args[1]) )
       => IF Positions(BeforeFork(args[1]), "/") = {}
          THEN ret.out.exc = "ValueError"
          ELSE /\ Returned(ret.out)
               /\ ret.out.val.author \o <<"/">> \o ret.out.val.name = BeforeFork(args[1])
               /\ ret.out.val.fork_name =
                     IF Positions(args[1], "+") = {} THEN PyNone
                     ELSE Text(AfterLastPlus(args[1]))

\* the '/' of the identifier comes after its last '+' only: a format error
C22_Witness ==
    /\ ParsedId
    /\ args[1] = IdPrefix \o <<"a", "+", "/">>
    /\ ret.out.exc = "ValueError"

-----------------------------------------------------------------------------
(* Lineages (identity.py).  A Python list is an object: `lists` holds the  *)
(* list objects alive, a reference to one is its index, and list.append    *)
(* changes the object every holder of the reference sees.                  *)

\* a mutant: the new id is appended to the parent's list, which is returned
build_lineage_in_place(heap, parent_lineage, new_agent_id) ==
    [heap |-> [heap EXCEPT ![parent_lineage] = Append(@, new_agent_id)],
     ref  |-> parent_lineage]

\* parent_lineage + [new_agent_id]: list + list makes a new list object
build_lineage(heap, parent_lineage, new_agent_id) ==
    [heap |-> Append(heap, heap[parent_lineage] \o <<new_agent_id>>),
     ref  |-> Len(heap) + 1]

get_generation(lineage) == IF Len(lineage) - 1 > 0 THEN Len(lineage) - 1 ELSE 0

Author1 == <<"a">>
Name1 == <<"b">>
AgentIds ==
    { generate_agent_id(Author1, Name1, f) : f \in {PyNone, Text(<<"s">>), Text(<<"t">>)} }

\* a list made by the caller, such as the lineage of a loaded manifest
NewList ==
    /\ Len(lists) < MaxLists
    /\ \E lineage \in {<<>>} \cup { <<a>> : a \in AgentIds } :
          lists' = Append(lists, lineage)
    /\ ret' = Called("list", Return(Len(lists) + 1))
    /\ UNCHANGED <<CRYPTOGRAPHY_AVAILABLE, db_vars, keystore_vars,
                   manifest_file, registry_vars, now, args, edits, last_signed,
                   resigned>>

\* args keeps the parent's reference, the new id, what the parent held at
\* the call, and the reference returned
BuildLineage ==
    /\ Len(lists) < MaxLists
    /\ \E parent_lineage \in 1..Len(lists), new_agent_id \in AgentIds :
          LET built == build_lineage(lists, parent_lineage, new_agent_id)
          IN  /\ Len(lists[parent_lineage]) < MaxLen
              /\ lists' = built.heap
              /\ args' = <<parent_lineage, new_agent_id, lists[parent_lineage], built.ref>>
              /\ ret' = Called("build_lineage", Return(built.ref))
    /\ UNCHANGED <<CRYPTOGRAPHY_AVAILABLE, db_vars, keystore_vars,
                   manifest_file, registry_vars, now, edits, last_signed, resigned>>

\* the caller changes the list build_lineage returned
AppendToResult ==
    /\ ret.op \in {"build_lineage", "list.append"}
    /\ Len(lists[args[4]]) < MaxLen
    /\ \E a \in AgentIds : lists' = [lists EXCEPT ![args[4]] = Append(@, a)]
    /\ ret' = Called("list.append", Return(args[4]))
    /\ UNCHANGED <<CRYPTOGRAPHY_AVAILABLE, db_vars, keystore_vars,
                   manifest_file, registry_vars, now, args, edits, last_signed,
                   resigned>>

InitLineage ==
    /\ InitCommon
    /\ manifest_file = NoManifest
    /\ args = <<>>

NextLineage ==
    \/ NewList
    \/ BuildLineage
    \/ AppendToResult

SpecLineage == InitLineage /\ [][NextLineage]_vars

-----------------------------------------------------------------------------
(* Properties of the lineages, under SpecLineage *)

(* C23: build_lineage returns parent_lineage followed by new_id, one entry
   longer and in the same order; the parent's list holds after the call,
   and after later changes to the list returned, what it held before. *)
C23_BuildLineageFresh ==
    /\ ret.op = "build_lineage" =>
          /\ lists[ret.out.val] = args[3] \o <<args[2]>>
          /\ Len(lists[ret.out.val]) = Len(args[3]) + 1
    /\ ret.op \in {"build_lineage", "list.append"} => lists[args[1]] = args[3]

\* the list returned for a parent of one entry was changed afterwards
C23_Witness ==
    /\ ret.op = "list.append"
    /\ Len(args[3]) = 1
    /\ Len(lists[args[4]]) = 3
    /\ lists[args[1]] = args[3]

-----------------------------------------------------------------------------
(* The record store (database.py).  A version "1.2.3" is the sequence of   *)
(* its numbers <<1, 2, 3>>, and "1.0" is <<1, 0>>; names, descriptions and *)
(* capabilities are sequences of characters, matched as LIKE matches them. *)
(* Of the columns, protocols, permissions, the ratings, badges and         *)
(* created_at are left out: no operation here reads them.                  *)

\* the rows of a table with this name: one at most, name being UNIQUE
Named(tbl, name) == LET Test(row) == row.name = name IN SelectSeq(tbl.rows, Test)

\* AgentRecord(...): generation and lineage are not columns and take the
\* defaults of AgentManifest (models.py:256-263)
_row_to_record(row) ==
    [id |-> row.id, name |-> row.name, version |-> row.version,
     description |-> row.description, author |-> row.author,
     capabilities |-> row.capabilities, lifecycle_state |-> row.lifecycle_state,
     updated_at |-> row.updated_at, generation |-> 0, lineage |-> <<>>]

\* a mutant: the row is inserted whatever the table holds
register_agent_no_unique(tbl, record, t) ==
    [tbl |-> [seq  |-> tbl.seq + 1,
              rows |-> Append(tbl.rows,
                          [id |-> tbl.seq + 1, name |-> record.name,
                           version |-> record.version,
                           description |-> record.description,
                           author |-> record.author,
                           capabilities |-> record.capabilities,
                           lifecycle_state |-> record.lifecycle_state,
                           updated_at |-> IsoFormat(t)])],
     \* the record comes back with its id set: the id stands for it here
     out |-> Return(tbl.seq + 1)]

\* INSERT INTO agents: sqlite3.IntegrityError on a name the table holds
register_agent(tbl, record, t) ==
    IF Named(tbl, record.name) # <<>>
    THEN [tbl |-> tbl, out |-> Raise("ValueError")]
    ELSE register_agent_no_unique(tbl, record, t)

get_agent(tbl, name) ==
    IF Named(tbl, name) = <<>> THEN PyNone ELSE _row_to_record(Named(tbl, name)[1])

\* ASCII letters compare without case in LIKE
Lower(c) == IF c = "B" THEN "b" ELSE c

RECURSIVE Like(_, _)
\* text LIKE pattern: '%' stands for any text and '_' for any one character
Like(text, pattern) ==
    IF pattern = <<>> THEN text = <<>>
    ELSE IF Head(pattern) = "%"
    THEN Like(text, Tail(pattern)) \/ (text # <<>> /\ Like(Tail(text), pattern))
    ELSE /\ text # <<>>
         /\ Head(pattern) = "_" \/ Lower(Head(text)) = Lower(Head(pattern))
         /\ Like(Tail(text), Tail(pattern))

RECURSIVE JsonStrings(_)
\* json.dumps of a list of str, without its brackets
JsonStrings(items) ==
    IF items = <<>> THEN <<>>
    ELSE <<"\"">> \o Head(items) \o <<"\"">>
         \o (IF Len(items) > 1 THEN <<",", " ">> ELSE <<>>) \o JsonStrings(Tail(items))

\* the WHERE clause of search_agents but for the lifecycle state
Matches(row, capability, query) ==
    IF TruthyText(capability)
    THEN Like(<<"[">> \o JsonStrings(row.capabilities) \o <<"]">>,
              <<"%", "\"">> \o capability.v \o <<"\"", "%">>)
    ELSE IF TruthyText(query)
    THEN \/ Like(row.name, <<"%">> \o query.v \o <<"%">>)
         \/ Like(row.description, <<"%">> \o query.v \o <<"%">>)
    ELSE TRUE

\* a mutant: the lifecycle state is not looked at
SearchRows_all(tbl, capability, query) ==
    LET Test(row) == Matches(row, capability, query)
    IN  SelectSeq(tbl.rows, Test)

\* the rows the WHERE clause of search_agents keeps, in rowid order
SearchRows(tbl, capability, query) ==
    LET Test(row) == Matches(row, capability, query) /\ row.lifecycle_state # "revoked"
    IN  SelectSeq(tbl.rows, Test)

\* LIMIT ?: a negative limit is no limit in SQLite
Limit(rows, limit) ==
    IF limit < 0 THEN rows ELSE SubSeq(rows, 1, IF limit < Len(rows) THEN limit ELSE Len(rows))

RECURSIVE Records(_)
Records(rows) ==
    IF rows = <<>> THEN <<>> ELSE <<_row_to_record(Head(rows))>> \o Records(Tail(rows))

search_agents(tbl, capability, query, limit) ==
    Records(Limit(SearchRows(tbl, capability, query), limit))

\* UPDATE agents SET ... WHERE name = ?
UpdateNamed(tbl, name, Set(_)) ==
    [tbl EXCEPT !.rows = [i \in 1..Len(tbl.rows) |->
                            IF tbl.rows[i].name = name THEN Set(tbl.rows[i])
                            ELSE tbl.rows[i]]]

update_lifecycle_state(tbl, name, state, t) ==
    LET Set(row) == [row EXCEPT !.lifecycle_state = state, !.updated_at = IsoFormat(t)]
    IN  [tbl |-> UpdateNamed(tbl, name, Set), out |-> Return(Named(tbl, name) # <<>>)]

delete_agent(tbl, name) ==
    LET Test(row) == row.name # name
    IN  [tbl |-> [tbl EXCEPT !.rows = SelectSeq(tbl.rows, Test)],
         out |-> Return(Named(tbl, name) # <<>>)]

\* re.match(r'^(\d+)\.(\d+)\.(\d+)$', version), then the bump
bump_version(version, bump_type) ==
    IF Len(version) # 3 THEN Raise("ValueError")
    ELSE IF bump_type = "major" THEN Return(<<version[1] + 1, 0, 0>>)
    ELSE IF bump_type = "minor" THEN Return(<<version[1], version[2] + 1, 0>>)
    ELSE IF bump_type = "patch" THEN Return(<<version[1], version[2], version[3] + 1>>)
    ELSE Raise("ValueError")

\* the row INSERTed INTO version_history for the record as it is
HistoryRow(hist, existing) ==
    [id |-> Len(hist) + 1, agent_name |-> existing.name, version |-> existing.version,
     description |-> existing.description, author |-> existing.author,
     capabilities |-> existing.capabilities,
     manifest_snapshot |-> [name |-> existing.name, version |-> existing.version,
                            description |-> existing.description,
                            author |-> existing.author,
                            capabilities |-> existing.capabilities,
                            lifecycle_state |-> existing.lifecycle_state],
     updated_at |-> existing.updated_at]

\* the new values: those of new_record, or else the existing ones
NewValues(existing, new_record) ==
    IF new_record # PyNone THEN new_record ELSE existing

\* the UPDATE of update_agent and its commit; hist is version_history as
\* the last commit left it and inserted is hist with the row of this call;
\* bumped is the outcome of bump_version, or the version returned as it is
\* when no bump is asked for
Updated(tbl, hist, inserted, name, values, bumped, t) ==
    IF ~Returned(bumped)
    THEN \* the exception leaves the function before conn.commit(): what was
         \* inserted into version_history goes with the closed connection
         [tbl |-> tbl, hist |-> hist, out |-> bumped]
    ELSE LET Set(row) == [row EXCEPT !.version = bumped.val,
                                     !.description = values.description,
                                     !.author = values.author,
                                     !.capabilities = values.capabilities,
                                     !.lifecycle_state = values.lifecycle_state,
                                     !.updated_at = IsoFormat(t)]
             new_tbl == UpdateNamed(tbl, name, Set)
         IN  [tbl |-> new_tbl, hist |-> inserted,
              out |-> Return(get_agent(new_tbl, name))]

\* a mutant: the history row is committed on its own, before the bump
update_agent_history_first(tbl, hist, name, new_record, bump_type, t) ==
    IF Named(tbl, name) = <<>>
    THEN [tbl |-> tbl, hist |-> hist, out |-> Raise("ValueError")]
    ELSE LET existing == get_agent(tbl, name)
             values == NewValues(existing, new_record)
             inserted == Append(hist, HistoryRow(hist, existing))
         IN  Updated(tbl, inserted, inserted, name, values,
                     IF bump_type # "" THEN bump_version(values.version, bump_type)
                     ELSE Return(values.version), t)

update_agent(tbl, hist, name, new_record, bump_type, t) ==
    IF Named(tbl, name) = <<>>
    THEN [tbl |-> tbl, hist |-> hist, out |-> Raise("ValueError")]
    ELSE LET existing == get_agent(tbl, name)
             values == NewValues(existing, new_record)
         IN  Updated(tbl, hist, Append(hist, HistoryRow(hist, existing)), name, values,
                     IF bump_type # "" THEN bump_version(values.version, bump_type)
                     ELSE Return(values.version), t)

RECURSIVE Reverse(_)
Reverse(rows) == IF rows = <<>> THEN <<>> ELSE Reverse(Tail(rows)) \o <<Head(rows)>>

\* ... WHERE agent_name = ? ORDER BY id DESC
get_version_history(hist, name) ==
    LET Test(row) == row.agent_name = name
    IN  Reverse(SelectSeq(hist, Test))

-----------------------------------------------------------------------------
(* The store's operations: those of database.py on the local file, one     *)
(* step each, and the server's handlers (server/app.py), whose query and   *)
(* whose commit are steps that other requests come between.                *)

is_remote_mode == AGENTHUB_API_URL # ""

\* what the store's operations leave alone
trust_vars == <<CRYPTOGRAPHY_AVAILABLE, lists, keystore_vars, manifest_vars,
                verifiers_file, applied, verifiers, now>>

AgentNames == {<<"b">>, <<"c">>}
LifecycleStates == {"active", "revoked"}

\* the records handed to register_agent
NewRecords ==
    { [name |-> n, version |-> <<1, 0, 0>>, description |-> <<"c", "b">>,
       author |-> Author1,
       capabilities |-> IF n = <<"b">> THEN << <<"x">> >> ELSE <<>>,
       lifecycle_state |-> l] :
      n \in AgentNames, l \in LifecycleStates }

\* a record handed to update_agent
UpdateRecord(version) ==
    [name |-> <<"b">>, version |-> version, description |-> <<"b">>,
     author |-> Author1, capabilities |-> <<>>, lifecycle_state |-> "active"]

\* new_record and bump_type of update_agent: among them a bump type and a
\* version that bump_version does not accept
UpdateInputs ==
    { <<PyNone, "">>, <<PyNone, "patch">>, <<PyNone, "huge">>,
      <<UpdateRecord(<<2, 0, 0>>), "major">>, <<UpdateRecord(<<1, 0>>), "minor">> }

\* capability, query and limit of a search
SearchInputs ==
    { <<PyNone, PyNone, -1>>, <<PyNone, PyNone, 1>>, <<Text(<<"x">>), PyNone, 50>>,
      <<PyNone, Text(<<"B">>), 0>>, <<PyNone, Text(<<"_">>), 1>>,
      <<Text(<<"x">>), Text(<<"c">>), -1>> }

InitStore ==
    /\ InitShared
    /\ CRYPTOGRAPHY_AVAILABLE = TRUE
    /\ AGENTHUB_API_URL \in {"", "http://hub"}
    /\ manifest_file = NoManifest
    /\ args = <<>>

RegisterAgent ==
    /\ ~is_remote_mode
    /\ agents.seq < MaxRowId
    /\ \E record \in NewRecords :
          LET done == register_agent(agents, record, now)
          IN  /\ agents' = done.tbl
              /\ args' = <<record>>
              /\ ret' = Called("register_agent", done.out)
    /\ UNCHANGED <<trust_vars, AGENTHUB_API_URL, version_history, pc, call>>

UpdateLifecycleState ==
    /\ ~is_remote_mode
    /\ \E name \in AgentNames, state \in LifecycleStates :
          LET done == update_lifecycle_state(agents, name, state, now)
          IN  /\ agents' = done.tbl
              /\ args' = <<name, state>>
              /\ ret' = Called("update_lifecycle_state", done.out)
    /\ UNCHANGED <<trust_vars, AGENTHUB_API_URL, version_history, pc, call>>

DeleteAgent ==
    /\ ~is_remote_mode
    /\ \E name \in AgentNames :
          LET done == delete_agent(agents, name)
          IN  /\ agents' = done.tbl
              /\ args' = <<name>>
              /\ ret' = Called("delete_agent", done.out)
    /\ UNCHANGED <<trust_vars, AGENTHUB_API_URL, version_history, pc, call>>

UpdateAgent ==
    /\ ~is_remote_mode
    /\ Len(version_history) < MaxHistory
    /\ \E name \in AgentNames, input \in UpdateInputs :
          LET done == update_agent(agents, version_history, name, input[1],
                                   input[2], now)
          IN  /\ agents' = done.tbl
              /\ version_history' = done.hist
              /\ args' = <<name, input[1], input[2]>>
              /\ ret' = Called("update_agent", done.out)
    /\ UNCHANGED <<trust_vars, AGENTHUB_API_URL, pc, call>>

GetVersionHistory ==
    /\ ~is_remote_mode
    /\ \E name \in AgentNames :
          /\ args' = <<name>>
          /\ ret' = Called("get_version_history",
                           Return(get_version_history(version_history, name)))
    /\ UNCHANGED <<trust_vars, db_vars, pc, call>>

\* search_agents on the local file; the handler of GET /api/search makes
\* the same query, LIMIT included, on the server's table
SearchAgents ==
    /\ ~is_remote_mode
    /\ \E input \in SearchInputs :
          /\ args' = input
          /\ ret' = Called("search_agents",
                           Return(search_agents(agents, input[1], input[2], input[3])))
    /\ UNCHANGED <<trust_vars, db_vars, pc, call>>

GetAgent ==
    /\ \E name \in AgentNames :
          /\ args' = <<name>>
          /\ ret' = Called("get_agent", Return(get_agent(agents, name)))
    /\ UNCHANGED <<trust_vars, db_vars, pc, call>>

\* cli.fork: what it computes and prints; the lists it builds are its own
fork(tbl, source_agent, name, author) ==
    LET source == get_agent(tbl, source_agent)
    IN  IF source = PyNone THEN Raise("SystemExit")
        ELSE LET new_author == IF TruthyText(author) THEN author.v ELSE source.author
                 base_name == source.name
                 new_agent_id == generate_agent_id(new_author, base_name, Text(name))
                 parent_lineage ==
                     IF source.lineage # <<>> THEN source.lineage
                     ELSE <<generate_agent_id(source.author, base_name, PyNone)>>
                 built == build_lineage(<<parent_lineage>>, 1, new_agent_id)
                 new_lineage == built.heap[built.ref]
             IN  Return([new_agent_id |-> new_agent_id,
                         parent |-> parent_lineage[Len(parent_lineage)],
                         new_lineage |-> new_lineage,
                         new_generation |-> Len(new_lineage) - 1])

Fork ==
    /\ \E source_agent \in AgentNames, name \in {<<"s">>, <<"t">>},
          author \in {PyNone, Text(<<"z">>)} :
          /\ args' = <<source_agent, name, author>>
          /\ ret' = Called("fork", fork(agents, source_agent, name, author))
    /\ UNCHANGED <<trust_vars, db_vars, pc, call>>

\* the body of a response of the server
Response(status, body) == Return([status |-> status, body |-> body])

\* the next rowid of a table without AUTOINCREMENT: one more than the largest
NextId(tbl) ==
    IF tbl.rows = <<>> THEN 1
    ELSE 1 + Max({ tbl.rows[i].id : i \in 1..Len(tbl.rows) })

WithId(tbl, id) == LET Test(row) == row.id = id IN SelectSeq(tbl.rows, Test)

\* POST /api/agents up to db.add: the query for the name
ServerRegisterQuery(p) ==
    /\ is_remote_mode
    /\ pc[p] = "idle"
    /\ \E data \in NewRecords \cup {PyNone} :
          IF data = PyNone
          THEN /\ ret' = Called("POST /api/agents", Response(400, "No data provided"))
               /\ args' = <<data>>
               /\ UNCHANGED <<pc, call>>
          ELSE IF Named(agents, data.name) # <<>>
          THEN /\ ret' = Called("POST /api/agents", Response(409, "already exists"))
               /\ args' = <<data>>
               /\ UNCHANGED <<pc, call>>
          ELSE /\ pc' = [pc EXCEPT ![p] = "register_commit"]
               /\ call' = [call EXCEPT ![p] = <<data>>]
               /\ UNCHANGED <<ret, args>>
    /\ UNCHANGED <<trust_vars, db_vars>>

\* db.commit() of POST /api/agents: the INSERT, refused by the UNIQUE
\* constraint when the name has been registered since the query
ServerRegisterCommit(p) ==
    /\ pc[p] = "register_commit"
    /\ NextId(agents) <= MaxRowId
    /\ LET data == call[p][1]
       IN  IF Named(agents, data.name) # <<>>
           THEN /\ ret' = Called("POST /api/agents", Response(500, "IntegrityError"))
                /\ UNCHANGED agents
           ELSE /\ agents' = [agents EXCEPT !.rows =
                                Append(@, [id |-> NextId(agents), name |-> data.name,
                                           version |-> data.version,
                                           description |-> data.description,
                                           author |-> data.author,
                                           capabilities |-> data.capabilities,
                                           lifecycle_state |-> data.lifecycle_state,
                                           updated_at |-> IsoFormat(now)])]
                /\ ret' = Called("POST /api/agents", Response(201, data.name))
    /\ args' = call[p]
    /\ pc' = [pc EXCEPT ![p] = "idle"]
    /\ call' = [call EXCEPT ![p] = <<>>]
    /\ UNCHANGED <<trust_vars, AGENTHUB_API_URL, version_history>>

\* PATCH and DELETE /api/agents/<name> up to db.commit: the query
ServerQuery(p) ==
    /\ is_remote_mode
    /\ pc[p] = "idle"
    /\ \E name \in AgentNames,
          request \in {<<"delete_commit">>} \cup
                      { <<"update_commit", l>> : l \in LifecycleStates } :
          IF Named(agents, name) = <<>>
          THEN /\ ret' = Called(request[1], Response(404, "not found"))
               /\ UNCHANGED <<pc, call>>
          ELSE /\ pc' = [pc EXCEPT ![p] = request[1]]
               /\ call' = [call EXCEPT ![p] = <<Named(agents, name)[1].id>> \o request]
               /\ UNCHANGED ret
    /\ UNCHANGED <<trust_vars, db_vars, args>>

\* db.commit() of PATCH: UPDATE agents SET lifecycle_state = ? WHERE id = ?
ServerUpdateCommit(p) ==
    /\ pc[p] = "update_commit"
    /\ IF WithId(agents, call[p][1]) = <<>>
       THEN /\ ret' = Called("PATCH /api/agents", Response(500, "StaleDataError"))
            /\ UNCHANGED agents
       ELSE /\ agents' = [agents EXCEPT !.rows =
                            [i \in 1..Len(@) |->
                               IF @[i].id = call[p][1]
                               THEN [@[i] EXCEPT !.lifecycle_state = call[p][3],
                                                 !.updated_at = IsoFormat(now)]
                               ELSE @[i]]]
            /\ ret' = Called("PATCH /api/agents", Response(200, call[p][3]))
    /\ pc' = [pc EXCEPT ![p] = "idle"]
    /\ call' = [call EXCEPT ![p] = <<>>]
    /\ UNCHANGED <<trust_vars, AGENTHUB_API_URL, version_history, args>>

\* db.commit() of DELETE: DELETE FROM agents WHERE id = ?
ServerDeleteCommit(p) ==
    /\ pc[p] = "delete_commit"
    /\ IF WithId(agents, call[p][1]) = <<>>
       THEN /\ ret' = Called("DELETE /api/agents", Response(500, "StaleDataError"))
            /\ UNCHANGED agents
       ELSE /\ agents' = [agents EXCEPT !.rows =
                            LET Test(row) == row.id # call[p][1] IN SelectSeq(@, Test)]
            /\ ret' = Called("DELETE /api/agents", Response(200, "deleted"))
    /\ pc' = [pc EXCEPT ![p] = "idle"]
    /\ call' = [call EXCEPT ![p] = <<>>]
    /\ UNCHANGED <<trust_vars, AGENTHUB_API_URL, version_history, args>>

\* the requests of two clients of the server, their steps interleaved
ServerStep ==
    \E p \in Procs :
        \/ ServerRegisterQuery(p)
        \/ ServerRegisterCommit(p)
        \/ ServerQuery(p)
        \/ ServerUpdateCommit(p)
        \/ ServerDeleteCommit(p)

\* the operations that write the store
NextStore ==
    \/ RegisterAgent
    \/ UpdateLifecycleState
    \/ DeleteAgent
    \/ UpdateAgent
    \/ GetVersionHistory
    \/ ServerStep

SpecStore == InitStore /\ [][NextStore]_vars

\* the local store alone
InitFork ==
    /\ InitShared
    /\ CRYPTOGRAPHY_AVAILABLE = TRUE
    /\ AGENTHUB_API_URL = ""
    /\ manifest_file = NoManifest
    /\ args = <<>>

\* the fork command on the records of the local store
NextFork ==
    \/ RegisterAgent
    \/ GetAgent
    \/ Fork

SpecFork == InitFork /\ [][NextFork]_vars

\* register, lifecycle updates and search
NextSearch ==
    \/ RegisterAgent
    \/ UpdateLifecycleState
    \/ SearchAgents

SpecSearch == InitFork /\ [][NextSearch]_vars

-----------------------------------------------------------------------------
(* Properties of the records and of the fork command, under SpecFork *)

(* C24: every agent record has generation = length(lineage) - 1, a record
   built with the defaults as well as what fork computes, and
   get_generation(lineage) is the record's generation. *)
C24_GenerationMatchesLineage ==
    /\ (ret.op = "get_agent" /\ ret.out.val # PyNone) =>
          /\ ret.out.val.generation = Len(ret.out.val.lineage) - 1
          /\ get_generation(ret.out.val.lineage) = ret.out.val.generation
    /\ (ret.op = "fork" /\ Returned(ret.out)) =>
          /\ ret.out.val.new_generation = Len(ret.out.val.new_lineage) - 1
          /\ get_generation(ret.out.val.new_lineage) = ret.out.val.new_generation

\* a fork step computes the source's lineage and the new id after it,
\* reports its length less one, and writes nothing to the store
C25_Step ==
    ret'.op = "fork" =>
        /\ agents' = agents
        /\ version_history' = version_history
        /\ Returned(ret'.out) =>
              /\ ret'.out.val.new_lineage
                    = get_agent(agents, args'[1]).lineage \o <<ret'.out.val.new_agent_id>>
              /\ ret'.out.val.new_generation = Len(ret'.out.val.new_lineage) - 1

(* C25: the fork command computes, for any source record, the source
   record's lineage followed by exactly the new agent id, reports
   generation = length(new lineage) - 1, and leaves the store as it is. *)
C25_ForkAppendsOne == [][C25_Step]_vars

-----------------------------------------------------------------------------
(* Properties of the store, under SpecStore and SpecSearch *)

\* no two rows of the table have the same name
UniqueNames(tbl) ==
    \A i, j \in 1..Len(tbl.rows) : tbl.rows[i].name = tbl.rows[j].name => i = j

C26_Step ==
    /\ UniqueNames(agents')
    /\ (ret'.op = "register_agent" /\ Named(agents, args'[1].name) # <<>>) =>
          /\ ret'.out.exc = "ValueError"
          /\ agents' = agents
    \* the server's answer to a request that finds the name in the table
    /\ (/\ ret'.op = "POST /api/agents" /\ pc' = pc
        /\ args'[1] # PyNone /\ Named(agents, args'[1].name) # <<>>) =>
          /\ ret'.out.val = [status |-> 409, body |-> "already exists"]
          /\ agents' = agents
    \* and to any request that does not register
    /\ (ret'.op = "POST /api/agents" /\ ret'.out.val.status # 201) =>
          agents' = agents

(* C26: no two stored records share a name, after any sequence of register,
   update, lifecycle-update and delete operations, the steps of the
   server's requests interleaved; registering a name that the store holds
   fails with the 'already exists' error and leaves the store unchanged, as
   does every request to register that fails. *)
C26_NamesUnique == [][C26_Step]_vars

\* a request to register a name already stored was refused by the server,
\* the store holding two records
C26_Witness ==
    /\ ret.op = "POST /api/agents"
    /\ ret.out.val.status = 409
    /\ Len(agents.rows) = 2

\* no record returned by the search is revoked
C27_NoRevoked ==
    ret.op = "search_agents" =>
        \A i \in 1..Len(ret.out.val) : ret.out.val[i].lifecycle_state # "revoked"

\* C27 as stated: at most limit records, for every limit
C27_Original ==
    /\ C27_NoRevoked
    /\ ret.op = "search_agents" => Len(ret.out.val) <= args[3]

(* C27: search_agents returns, for every capability and query and after any
   sequence of register and update_lifecycle_state operations, no record
   whose lifecycle_state is 'revoked', and at most limit records for every
   limit that is not negative. *)
C27_SearchExcludesRevoked ==
    /\ C27_NoRevoked
    /\ (ret.op = "search_agents" /\ args[3] >= 0) => Len(ret.out.val) <= args[3]

\* a search matched by a revoked record and another returned the other,
\* and one of two matching records was cut off by the limit
C27_Witness ==
    /\ ret.op = "search_agents"
    /\ args = <<PyNone, PyNone, 1>>
    /\ Len(agents.rows) = 2
    /\ Len(ret.out.val) = 1
    /\ agents.rows[1].lifecycle_state = "revoked"
    /\ ret.out.val[1].name = agents.rows[2].name

\* the rows of the history of a name, newest first
NewestFirst(history) ==
    \A i \in 1..(Len(history) - 1) : history[i].id > history[i + 1].id

C30_Step ==
    ret'.op = "update_agent" =>
        LET name == args'[1]
            existing == Named(agents, name)
            bumped == IF args'[3] = "" THEN TRUE
                      ELSE Returned(bump_version(
                               IF args'[2] # PyNone THEN args'[2].version
                               ELSE existing[1].version, args'[3]))
        IN  IF existing # <<>> /\ bumped
            THEN /\ Returned(ret'.out)
                 /\ Len(version_history') = Len(version_history) + 1
                 /\ SubSeq(version_history', 1, Len(version_history)) = version_history
                 /\ LET h == get_version_history(version_history', name)
                    IN  /\ NewestFirst(h)
                        /\ h[1].version = existing[1].version
                        /\ h[1].description = existing[1].description
                        /\ h[1].author = existing[1].author
                        /\ h[1].capabilities = existing[1].capabilities
                        /\ h[1].manifest_snapshot.lifecycle_state
                              = existing[1].lifecycle_state
            ELSE /\ ret'.out.exc = "ValueError"
                 /\ agents' = agents
                 /\ version_history' = version_history

(* C30: every update_agent that succeeds appends one version_history entry
   with the version and fields the agent had before it, so that
   get_version_history lists them newest first; an update_agent of an
   unknown name, or with a version or bump type that bump_version rejects,
   raises ValueError and leaves agents and version_history unchanged. *)
C30_UpdateTransactional == [][C30_Step]_vars

\* bump_version refused the bump type for an agent that has a history
C30_Witness ==
    /\ ret.op = "update_agent"
    /\ ret.out.exc = "ValueError"
    /\ Named(agents, args[1]) # <<>>
    /\ get_version_history(version_history, args[1]) # <<>>

-----------------------------------------------------------------------------
(* The manifest signature and the attestation list: a signed manifest whose
   list of attestations is added to, or edited in the file *)

\* an attestation made by sign_attestation with metadata that holds a date
A_dated ==
    SignedAttestation("k1", PyStr("test"), PyStr("ci"), PyStr("passed"), PyNone,
                      PyDict(<< <<K_released, PyDate("2024-01-01")>> >>), 0).val

\* the attestations added to the signed manifest
CoveredAttestations == {A_signed("k1"), A_dated}

InitCovered ==
    /\ InitCommon
    /\ args = <<>>
    /\ manifest_file = PyDict(<< <<K_name, PyStr("bot")>> >>)

\* add_attestation_to_manifest(manifest_path, a) on the manifest file
AddToSigned ==
    /\ Len(AttList(manifest_file)) < MaxAttestations
    /\ \E a \in CoveredAttestations \cup MadeAttestations(now) : AddAttestation(a, now)
    /\ UNCHANGED <<CRYPTOGRAPHY_AVAILABLE, store_vars, keystore_vars, registry_vars, edits,
                   last_signed, resigned>>

\* the values an editor of the file gives a field of an attestation
LedgerEdits ==
    { <<K_statement, PyStr("failed")>>,
      <<K_metadata, PyDict(<< <<K_released, PyStr("2024-01-01")>> >>)>> }

\* the list of attestations with field kv[1] of entry i set to kv[2]
WithEntryField(m, i, kv) ==
    DictSet(m, K_attestations,
            PyList([AttList(m) EXCEPT ![i] = DictSet(@, kv[1], kv[2])]))

\* someone edits the manifest file: changes a field of one attestation of
\* the list
EditLedgerEntry ==
    /\ edits < MaxEdits
    /\ \E i \in 1..Len(AttList(manifest_file)) : \E kv \in LedgerEdits :
        /\ AttList(manifest_file)[i].t = "dict"
        /\ DictGet(AttList(manifest_file)[i], kv[1], PyNone) # kv[2]
        /\ manifest_file' = WithEntryField(manifest_file, i, kv)
    /\ edits' = edits + 1
    /\ ret' = Called("edit_ledger_entry", Return(<<>>))
    /\ UNCHANGED <<CRYPTOGRAPHY_AVAILABLE, store_vars, keystore_vars, registry_vars, now,
                   args, last_signed, resigned>>

NextCovered ==
    \/ \E k \in Keys : Keygen(k)
    \/ SignManifestFile
    \/ AddToSigned
    \/ EditLedgerEntry
    \/ VerifyManifestFile

SpecCovered == InitCovered /\ [][NextCovered]_vars

\* the list of attestations is not what the last sign_manifest_file left
LedgerChangedSinceSigned ==
    /\ last_signed.t = "dict"
    /\ manifest_file.t = "dict"
    /\ AttList(manifest_file) # AttList(last_signed)

(* C28: the manifest signature covers the list of attestations: once the
   manifest was signed, verify_manifest_file returns (False, reason) for a
   file whose list has had an attestation added, or an attestation edited,
   since the manifest was last signed. *)
C28_SignatureCoversAttestations ==
    (ret.op = "verify_manifest_file" /\ LedgerChangedSinceSigned) =>
        /\ Returned(ret.out)
        /\ ret.out.val[1] = FALSE

\* the half of C28 about add_attestation_to_manifest alone: the list of the
\* file is the signed one with attestations appended
C28_AddInvalidates ==
    ( /\ ret.op = "verify_manifest_file"
      /\ LedgerChangedSinceSigned
      /\ Len(AttList(manifest_file)) > Len(AttList(last_signed))
      /\ SubSeq(AttList(manifest_file), 1, Len(AttList(last_signed)))
            = AttList(last_signed) ) =>
        /\ Returned(ret.out)
        /\ ret.out.val[1] = FALSE

-----------------------------------------------------------------------------
(* Two processes run the registry commands at the same time: the load, the
   open and the write of each command are steps that the steps of the other
   process come between *)

\* the arguments the two processes call add_trusted_verifier with
RaceInputs ==
    { <<PyStr("ci"), PyStr(get_public_key_base64("k1")), PyStr("")>>,
      <<PyStr("ci2"), PyStr(get_public_key_base64("k2")), PyStr("CI")>> }

InitRace ==
    /\ InitShared
    /\ CRYPTOGRAPHY_AVAILABLE = TRUE
    /\ AGENTHUB_API_URL = ""
    /\ args = <<>>
    /\ manifest_file = PyDict(<<>>)

NextRace ==
    \/ \E p \in Procs, input \in RaceInputs :
            AddTrustedVerifier(p, input[1], input[2], input[3])
    \/ \E p \in Procs, name \in VerifierNames : RemoveTrustedVerifier(p, name)
    \/ \E p \in Procs : SaveOpen(p)
    \/ \E p \in Procs : SaveWriteApplied(p)

SpecRace == InitRace /\ [][NextRace]_vars

\* two registries hold the same names with the same entries
SameRegistry(a, b) ==
    \A name \in VerifierNames :
        /\ DictHas(a, name) = DictHas(b, name)
        /\ DictGet(a, name, PyNone) = DictGet(b, name, PyNone)

\* no registry command is in progress
AllIdle == \A p \in Procs : pc[p] = "idle"

(* C29: concurrent registry mutations are not lost: once the add and remove
   calls of the two processes have returned, the registry file holds what
   these calls give when applied one after the other: two adds of distinct
   names leave both names registered, and a removed verifier is not brought
   back by a concurrent add of another name. *)
C29_NoLostMutation ==
    AllIdle => SameRegistry(load_trusted_verifiers, applied)

====
